---- MODULE Spec2Model ----
(***************************************************************************)
(* Verification model of the chess position engine: bitboard utilities,    *)
(* attack tables, sliding-attack lookup, Position, move encoding, move     *)
(* generation, make/unmake, Zobrist hashing and terminal-state detection.  *)
(*                                                                         *)
(* Representation.  A bitboard (a JavaScript BigInt used as a bit mask) is *)
(* the set of its set bit positions; `a & b` is intersection, `a | b` is   *)
(* union, `a & ~b` is set difference.  BigInt is unbounded, so a mask that *)
(* the source does not cut to 64 bits may hold positions above 63.         *)
(* A Zobrist hash or key, a 64-bit BigInt, is likewise the set of its set  *)
(* bit positions, and `a ^ b` is symmetric difference.  A Move is the low  *)
(* of the encoded number, the only bits the decoders read.  A string is a  *)
(* sequence of one-character strings.                                      *)
(***************************************************************************)
EXTENDS Integers, Sequences, FiniteSets, TLC

(***************************************************************************)
(* Bounds of the model.                                                    *)
(***************************************************************************)
MaxPly == 2

\* the longest game line played move by move
MaxLine == 12

\* the deepest search a transposition table entry is stored for
TTMaxDepth == 2

\* the most generations a transposition table goes through
MaxAge == 2

\* the deepest maxDepth a search is called with
MaxSearchDepth == 2

\* the last reading of the clock, in milliseconds
MaxClock == 2

\* the deepest perft, counted from the layout the game starts from
MaxPerftDepth == 2

(***************************************************************************)
(* Generic helpers.                                                        *)
(***************************************************************************)
Min(S) == CHOOSE x \in S : \A y \in S : x <= y

Max(S) == CHOOSE x \in S : \A y \in S : x >= y

Pow2(n) == <<1, 2, 4, 8, 16, 32, 64, 128, 256, 512, 1024, 2048, 4096, 8192,
             16384, 32768, 65536>>[n + 1]

\* the set bit positions of a non-negative number below 2^16
Bits16(n) == {b \in 0..15 : (n \div Pow2(b)) % 2 = 1}

\* the number whose set bit positions (all below 16) are S
RECURSIVE FromBits(_)
FromBits(S) == IF S = {} THEN 0 ELSE LET b == Min(S) IN Pow2(b) + FromBits(S \ {b})

\* a set of numbers in increasing order
RECURSIVE SortedSeq(_)
SortedSeq(S) == IF S = {} THEN <<>> ELSE LET m == Min(S) IN <<m>> \o SortedSeq(S \ {m})

\* bit positions of a 64-bit constant given as four 16-bit limbs, high limb first
Bits64(limbs) == UNION {{b + 16 * (4 - i) : b \in Bits16(limbs[i])} : i \in 1..4}

\* binary increment of a bit set at position p, with carry
RECURSIVE AddBit(_, _)
AddBit(S, p) == IF p \in S THEN AddBit(S \ {p}, p + 1) ELSE S \cup {p}

(***************************************************************************)
(* Number(bigint): conversion of a non-negative BigInt to an IEEE-754      *)
(* double, 53 significant bits, round to nearest, ties to even.  The       *)
(* result is again given by its set bit positions.                         *)
(***************************************************************************)
NumberOfBigInt(S) ==
  IF S = {} THEN {}
  ELSE LET top == Max(S)
           lsb == top - 52
           kept == {b \in S : b >= lsb}
           half == (lsb - 1) \in S
           below == \E b \in S : b < lsb - 1
       IN  IF lsb <= 0 THEN S
           ELSE IF half /\ (below \/ lsb \in S) THEN AddBit(kept, lsb)
           ELSE kept

(***************************************************************************)
(* Bit-vector utilities                                                    *)
(***************************************************************************)
FULL == 0..63

fileOf(square) == square % 8

rankOf(square) == square \div 8

makeSquare(file, rank) == rank * 8 + file

squareBB(square) == {square}

testBit(bb, square) == square \in bb

setBit(bb, square) == bb \cup {square}

clearBit(bb, square) == bb \ {square}

popCount(bb) == Cardinality(bb)

debruijn64 == <<1015, 40305, 46283, 2697>>

index64 ==
  << 0,  1, 48,  2, 57, 49, 28,  3, 61, 58, 50, 42, 38, 29, 17,  4,
    62, 55, 59, 36, 53, 51, 43, 22, 45, 39, 33, 30, 24, 18, 12,  5,
    63, 47, 56, 27, 60, 41, 37, 16, 54, 35, 52, 21, 44, 32, 23, 11,
    46, 26, 40, 15, 34, 20, 31, 10, 25, 14, 19,  9, 13,  8,  7,  6>>

\* bitScanForward of the single-bit mask 1n << k:
\*   idx = Number((isolated * debruijn64) >> 58n) & 63; return index64[idx]
\* The product is not cut to 64 bits, so the shifted value has up to k bits
\* and Number() rounds it to 53 of them before `& 63` reads the low six.
bitScanForwardBit(k) ==
  LET shifted == {b + k - 58 : b \in {x \in Bits64(debruijn64) : x + k >= 58}}
      idx == FromBits({b \in NumberOfBigInt(shifted) : b <= 5})
  IN  index64[idx + 1]

RECURSIVE tabulate(_, _)
tabulate(f, k) == IF k \notin DOMAIN f THEN <<>> ELSE <<f[k]>> \o tabulate(f, k + 1)

\* bitScanForwardBit for bits 0..64, entry k + 1 for bit k
BSF == tabulate([k \in 0..64 |-> bitScanForwardBit(k)], 0)

bitScanForward(bb) == IF bb = {} THEN -1 ELSE BSF[Min(bb) + 1]

\* getSquares: bitScanForward of the mask, clear the lowest bit, repeat
RECURSIVE getSquares(_)
getSquares(bb) ==
  IF bb = {} THEN <<>> ELSE <<bitScanForward(bb)>> \o getSquares(bb \ {Min(bb)})

FILE_A == {sq \in FULL : sq % 8 = 0}

FILE_B == {sq \in FULL : sq % 8 = 1}

FILE_G == {sq \in FULL : sq % 8 = 6}

FILE_H == {sq \in FULL : sq % 8 = 7}

RANK_1 == 0..7

RANK_2 == 8..15

RANK_4 == 24..31

RANK_5 == 32..39

RANK_7 == 48..55

RANK_8 == 56..63

NOT_FILE_A == FULL \ FILE_A

NOT_FILE_H == FULL \ FILE_H

NOT_FILE_AB == FULL \ (FILE_A \cup FILE_B)

NOT_FILE_GH == FULL \ (FILE_G \cup FILE_H)

\* bb << n and bb >> n on BigInt
shl(bb, n) == {s + n : s \in bb}

shr(bb, n) == {s - n : s \in {x \in bb : x >= n}}

shiftNorth(bb) == shl(bb, 8) \cap FULL

shiftSouth(bb) == shr(bb, 8)

\* `& ~FILE_A` without `& FULL`: bit 64 (h8 shifted east) survives
shiftEast(bb) == shl(bb, 1) \ FILE_A

shiftWest(bb) == shr(bb, 1) \ FILE_H

shiftNorthEast(bb) == (shl(bb, 9) \ FILE_A) \cap FULL

shiftNorthWest(bb) == (shl(bb, 7) \ FILE_H) \cap FULL

shiftSouthEast(bb) == shr(bb, 7) \ FILE_A

shiftSouthWest(bb) == shr(bb, 9) \ FILE_H

(***************************************************************************)
(* Attack tables                                                           *)
(***************************************************************************)
KNIGHT_ATTACKS ==
  [sq \in FULL |->
     LET bb == squareBB(sq)
     IN  (shl(bb, 15) \cap NOT_FILE_H) \cup (shl(bb, 17) \cap NOT_FILE_A)
         \cup (shl(bb, 6) \cap NOT_FILE_GH) \cup (shl(bb, 10) \cap NOT_FILE_AB)
         \cup (shr(bb, 17) \cap NOT_FILE_H) \cup (shr(bb, 15) \cap NOT_FILE_A)
         \cup (shr(bb, 10) \cap NOT_FILE_GH) \cup (shr(bb, 6) \cap NOT_FILE_AB)]

KING_ATTACKS ==
  [sq \in FULL |->
     LET bb == squareBB(sq)
     IN  shiftNorth(bb) \cup shiftSouth(bb) \cup shiftEast(bb) \cup shiftWest(bb)
         \cup shiftNorthEast(bb) \cup shiftNorthWest(bb)
         \cup shiftSouthEast(bb) \cup shiftSouthWest(bb)]

WHITE_PAWN_ATTACKS ==
  [sq \in FULL |-> shiftNorthEast(squareBB(sq)) \cup shiftNorthWest(squareBB(sq))]

BLACK_PAWN_ATTACKS ==
  [sq \in FULL |-> shiftSouthEast(squareBB(sq)) \cup shiftSouthWest(squareBB(sq))]

getKnightAttacks(square) == KNIGHT_ATTACKS[square]

getKingAttacks(square) == KING_ATTACKS[square]

getPawnAttacks(square, isWhite) ==
  IF isWhite THEN WHITE_PAWN_ATTACKS[square] ELSE BLACK_PAWN_ATTACKS[square]

(***************************************************************************)
(* Sliding-attack index (magic bitboards)                                  *)
(***************************************************************************)
generateRookMask(square) ==
  LET file == fileOf(square)
      rank == rankOf(square)
  IN  {r * 8 + file : r \in (rank + 1)..6} \cup {r * 8 + file : r \in 1..(rank - 1)}
      \cup {rank * 8 + f : f \in (file + 1)..6} \cup {rank * 8 + f : f \in 1..(file - 1)}

generateBishopMask(square) ==
  LET file == fileOf(square)
      rank == rankOf(square)
  IN  {sq \in FULL :
         /\ sq # square
         /\ rankOf(sq) \in 1..6 /\ fileOf(sq) \in 1..6
         /\ \/ rankOf(sq) - rank = fileOf(sq) - file
            \/ rankOf(sq) - rank = file - fileOf(sq)}

\* one loop of the ray casts: from (r, f) on, every square in direction
\* (dr, df) up to and including the first blocker or the edge of the board
RECURSIVE castRay(_, _, _, _, _)
castRay(r, f, dr, df, blockers) ==
  IF r \notin 0..7 \/ f \notin 0..7 THEN {}
  ELSE IF testBit(blockers, r * 8 + f) THEN {r * 8 + f}
  ELSE {r * 8 + f} \cup castRay(r + dr, f + df, dr, df, blockers)

generateRookAttacks(square, blockers) ==
  castRay(rankOf(square) + 1, fileOf(square), 1, 0, blockers)
  \cup castRay(rankOf(square) - 1, fileOf(square), -1, 0, blockers)
  \cup castRay(rankOf(square), fileOf(square) + 1, 0, 1, blockers)
  \cup castRay(rankOf(square), fileOf(square) - 1, 0, -1, blockers)

generateBishopAttacks(square, blockers) ==
  castRay(rankOf(square) + 1, fileOf(square) + 1, 1, 1, blockers)
  \cup castRay(rankOf(square) + 1, fileOf(square) - 1, 1, -1, blockers)
  \cup castRay(rankOf(square) - 1, fileOf(square) + 1, -1, 1, blockers)
  \cup castRay(rankOf(square) - 1, fileOf(square) - 1, -1, -1, blockers)

\* generateOccupancies: the mask's bits as bitScanForward reports them; the
\* enumerated occupancies are the subsets of this set
occupancyBits(mask) == {bitScanForward({k}) : k \in mask}

\* initializeMagicForSquare stores attacks[Number((occ * magic) >> shift)] for
\* each enumerated occupancy in enumeration order.  The product is not cut to
\* 64 bits, so the index has up to 76 bits and Number() rounds it to 53:
\* two enumerated occupancies alias exactly when their indices round to the
\* same double, and the later one overwrites the slot.  Evaluating the
\* expression for every square and every subset of its mask, this happens
\* for the rook table of g1 (square 6) only, with g7 (54) occupied: the
\* occupancy of b1..f1 read as a 5-bit number r (b1 lowest) shares its slot
\* with r + 1 when r is odd and below a threshold, or even and above it.
\* rookSlot is the occupancy whose attack set the slot of occ ends up holding.
rookSlot(square, occ) ==
  IF square = 6 /\ 54 \in occ
  THEN LET r == FromBits({k - 1 : k \in occ \cap 1..5})
           t == 21 - (IF 22 \in occ THEN 4 ELSE 0) - (IF 38 \in occ THEN 14 ELSE 0)
           r2 == IF \/ r % 2 = 1 /\ r < t
                    \/ r % 2 = 0 /\ r > t /\ r < 31
                 THEN r + 1 ELSE r
       IN  (occ \ 1..5) \cup {b + 1 : b \in Bits16(r2)}
  ELSE occ

\* getRookAttacks: entry.attacks[index] ?? 0n.  A relevant occupancy that was
\* never enumerated (it holds a square that bitScanForward misreports) finds
\* no slot and yields the empty mask.
getRookAttacks(square, occupancy) ==
  LET mask == generateRookMask(square)
      occ == occupancy \cap mask
  IN  IF occ \subseteq occupancyBits(mask)
      THEN generateRookAttacks(square, rookSlot(square, occ))
      ELSE {}

\* the bishop masks hold no square above g7 and no two bishop indices round
\* to the same double: the lookup returns the ray-cast attack set
getBishopAttacks(square, occupancy) ==
  LET mask == generateBishopMask(square)
      occ == occupancy \cap mask
  IN  IF occ \subseteq occupancyBits(mask)
      THEN generateBishopAttacks(square, occ)
      ELSE {}

getQueenAttacks(square, occupancy) ==
  getRookAttacks(square, occupancy) \cup getBishopAttacks(square, occupancy)

(***************************************************************************)
(* Move encoding                                                           *)
(***************************************************************************)
QUIET == 0

DOUBLE_PAWN_PUSH == 1

KING_CASTLE == 2

QUEEN_CASTLE == 3

CAPTURE == 4

EN_PASSANT == 5

KNIGHT_PROMO == 8

BISHOP_PROMO == 9

ROOK_PROMO == 10

QUEEN_PROMO == 11

KNIGHT_PROMO_CAPTURE == 12

BISHOP_PROMO_CAPTURE == 13

ROOK_PROMO_CAPTURE == 14

QUEEN_PROMO_CAPTURE == 15

\* from | (to << 6) | (flags << 12) on 32-bit integers, low 16 bits kept;
\* a negative `from` (two's complement) sets every higher bit
createMove(from, to, flags) ==
  IF from >= 0 /\ from <= 63
  THEN from + to * 64 + flags * 4096
  ELSE FromBits(Bits16(from % 65536) \cup Bits16((to * 64) % 65536)
                \cup Bits16((flags * 4096) % 65536))

getFromSquare(move) == move % 64

getToSquare(move) == (move \div 64) % 64

getMoveFlags(move) == (move \div 4096) % 16

isCapture(move) == (getMoveFlags(move) \div 4) % 2 = 1

isPromotion(move) == (getMoveFlags(move) \div 8) % 2 = 1

getPromotionPiece(move) == getMoveFlags(move) % 4

isEnPassant(move) == getMoveFlags(move) = EN_PASSANT

isKingsideCastle(move) == getMoveFlags(move) = KING_CASTLE

isQueensideCastle(move) == getMoveFlags(move) = QUEEN_CASTLE

isDoublePawnPush(move) == getMoveFlags(move) = DOUBLE_PAWN_PUSH

(***************************************************************************)
(* Characters and strings                                                  *)
(***************************************************************************)
LowerCase == <<"a", "b", "c", "d", "e", "f", "g", "h", "i", "j", "k", "l", "m",
               "n", "o", "p", "q", "r", "s", "t", "u", "v", "w", "x", "y", "z">>

UpperCase == <<"A", "B", "C", "D", "E", "F", "G", "H", "I", "J", "K", "L", "M",
               "N", "O", "P", "Q", "R", "S", "T", "U", "V", "W", "X", "Y", "Z">>

Digits == <<"0", "1", "2", "3", "4", "5", "6", "7", "8", "9">>

\* the Number NaN, kept apart from every integer the model computes with
NaN == -1000000

IndexIn(seq, c) == IF \E i \in 1..Len(seq) : seq[i] = c
                   THEN CHOOSE i \in 1..Len(seq) : seq[i] = c
                   ELSE 0

\* String.prototype.charCodeAt for the characters the model uses
charCodeAt(c) ==
  IF IndexIn(LowerCase, c) > 0 THEN 96 + IndexIn(LowerCase, c)
  ELSE IF IndexIn(UpperCase, c) > 0 THEN 64 + IndexIn(UpperCase, c)
  ELSE IF IndexIn(Digits, c) > 0 THEN 47 + IndexIn(Digits, c)
  ELSE IF c = "-" THEN 45
  ELSE IF c = "/" THEN 47
  ELSE 32

fromCharCode(n) == IF n \in 97..122 THEN LowerCase[n - 96] ELSE "?"

isDigit(c) == IndexIn(Digits, c) > 0

\* parseInt of a string: the value of its leading decimal digits, NaN if none
RECURSIVE parseDigits(_, _)
parseDigits(str, acc) ==
  IF str = <<>> \/ ~isDigit(Head(str)) THEN acc
  ELSE parseDigits(Tail(str), acc * 10 + (IndexIn(Digits, Head(str)) - 1))

parseInt(str) == IF str = <<>> \/ ~isDigit(Head(str)) THEN NaN ELSE parseDigits(str, 0)

\* Number.prototype.toString for non-negative integers
RECURSIVE toString(_)
toString(n) == IF n < 10 THEN <<Digits[n + 1]>> ELSE toString(n \div 10) \o <<Digits[(n % 10) + 1]>>

squareToAlgebraic(square) ==
  <<fromCharCode(97 + fileOf(square))>> \o toString(rankOf(square) + 1)

\* charCodeAt(0) - 97 and parseInt(algebraic[1]) - 1; a missing or non-digit
\* second character makes the result NaN
algebraicToSquare(algebraic) ==
  LET file == IF Len(algebraic) >= 1 THEN charCodeAt(algebraic[1]) - 97 ELSE NaN
      rank == IF Len(algebraic) >= 2 THEN parseInt(<<algebraic[2]>>) ELSE NaN
  IN  IF file = NaN \/ rank = NaN THEN NaN ELSE makeSquare(file, rank - 1)

PromoChars == <<"n", "b", "r", "q">>

moveToUCI(move) ==
  LET from == squareToAlgebraic(getFromSquare(move))
      to == squareToAlgebraic(getToSquare(move))
  IN  IF isPromotion(move)
      THEN from \o to \o <<PromoChars[getPromotionPiece(move) + 1]>>
      ELSE from \o to

\* null (FALSE here) when the length is not 4 or 5 or a square is out of
\* range; NaN compares false with everything, so a NaN square passes
parseUCI(uci) ==
  IF Len(uci) < 4 \/ Len(uci) > 5 THEN [ok |-> FALSE]
  ELSE LET from == algebraicToSquare(SubSeq(uci, 1, 2))
           to == algebraicToSquare(SubSeq(uci, 3, 4))
           bad(x) == x # NaN /\ (x < 0 \/ x > 63)
       IN  IF bad(from) \/ bad(to) THEN [ok |-> FALSE]
           ELSE [ok |-> TRUE, from |-> from, to |-> to,
                 promotion |-> IF Len(uci) = 5 THEN uci[5] ELSE "null"]

(***************************************************************************)
(* Position                                                                *)
(***************************************************************************)
PieceChars == <<"P", "N", "B", "R", "Q", "K", "p", "n", "b", "r", "q", "k">>

charToPieceIndex(char) == IndexIn(PieceChars, char) - 1

\* the fields a new Position() starts with
newPosition ==
  [bitboards |-> [piece \in 0..11 |-> {}],
   whitePieces |-> {}, blackPieces |-> {}, allPieces |-> {},
   sideToMove |-> "white", castlingRights |-> 0, enPassantSquare |-> -1,
   halfmoveClock |-> 0, fullmoveNumber |-> 1, zobristHash |-> {},
   stateHistory |-> <<>>, positionHistory |-> <<>>]

\* an alternative updateAggregateBitboards that leaves the aggregates alone
staleAggregates(pos) == pos

updateAggregateBitboards(pos) ==
  LET white == UNION {pos.bitboards[piece] : piece \in 0..5}
      black == UNION {pos.bitboards[piece] : piece \in 6..11}
  IN  [pos EXCEPT !.whitePieces = white, !.blackPieces = black,
                  !.allPieces = white \cup black]

\* the first of the 12 masks holding the square, -1 if none
pieceAt(pos, square) ==
  LET holders == {piece \in 0..11 : square \in pos.bitboards[piece]}
  IN  IF holders = {} THEN -1 ELSE Min(holders)

addPiece(pos, piece, square) ==
  updateAggregateBitboards([pos EXCEPT !.bitboards[piece] = setBit(@, square)])

removePiece(pos, piece, square) ==
  updateAggregateBitboards([pos EXCEPT !.bitboards[piece] = clearBit(@, square)])

movePiece(pos, piece, from, to) ==
  updateAggregateBitboards(
    [pos EXCEPT !.bitboards[piece] = setBit(clearBit(@, from), to)])

\* the lowest of squares 0..63 in the king mask, -1 if there is none
kingSquare(pos, color) ==
  LET kingBB == (IF color = "white" THEN pos.bitboards[5] ELSE pos.bitboards[11])
                \cap FULL
  IN  IF kingBB = {} THEN -1 ELSE Min(kingBB)

\* String.prototype.split with a one-character separator
RECURSIVE split(_, _, _)
split(str, sep, field) ==
  IF str = <<>> THEN <<field>>
  ELSE IF Head(str) = sep THEN <<field>> \o split(Tail(str), sep, <<>>)
  ELSE split(Tail(str), sep, Append(field, Head(str)))

\* fen.trim().split(/\s+/): the maximal runs of non-blank characters
splitBlanks(str) == SelectSeq(split(str, " ", <<>>), LAMBDA f : f # <<>>)

\* one row of the piece placement, left to right from file a
RECURSIVE parseRow(_, _, _, _)
parseRow(bitboards, row, file, rank) ==
  IF row = <<>> \/ file > 7 THEN bitboards
  ELSE LET char == Head(row)
       IN  IF charCodeAt(char) \in 49..56 /\ isDigit(char)
           THEN parseRow(bitboards, Tail(row), file + parseInt(<<char>>), rank)
           ELSE LET pieceIndex == charToPieceIndex(char)
                    placed == IF pieceIndex >= 0
                              THEN [bitboards EXCEPT
                                      ![pieceIndex] = setBit(@, makeSquare(file, rank))]
                              ELSE bitboards
                IN  parseRow(placed, Tail(row), file + 1, rank)

RECURSIVE parseRows(_, _, _)
parseRows(bitboards, rows, rank) ==
  IF rank < 0 THEN bitboards
  ELSE parseRows(parseRow(bitboards, rows[8 - rank], 0, rank), rows, rank - 1)

RECURSIVE parseCastling(_)
parseCastling(str) ==
  IF str = <<>> THEN {}
  ELSE (CASE Head(str) = "K" -> {0}
          [] Head(str) = "Q" -> {1}
          [] Head(str) = "k" -> {2}
          [] Head(str) = "q" -> {3}
          [] OTHER -> {}) \cup parseCastling(Tail(str))

\* Position.fromFEN; ok = FALSE stands for the thrown Error.  zobristHash,
\* stateHistory and positionHistory keep the constructor's values.
fromFEN(fen) ==
  LET parts == splitBlanks(fen)
      rows == split(parts[1], "/", <<>>)
  IN  IF Len(parts) < 4 THEN [ok |-> FALSE]
      ELSE IF Len(rows) # 8 THEN [ok |-> FALSE]
      ELSE [ok |-> TRUE,
            pos |-> updateAggregateBitboards(
              [newPosition EXCEPT
                 !.bitboards = parseRows(@, rows, 7),
                 !.sideToMove = IF parts[2] = <<"w">> THEN "white" ELSE "black",
                 !.castlingRights = IF parts[3] = <<"-">> THEN 0
                                    ELSE FromBits(parseCastling(parts[3])),
                 !.enPassantSquare = IF parts[4] = <<"-">> THEN -1
                                     ELSE algebraicToSquare(parts[4]),
                 !.halfmoveClock = IF Len(parts) > 4 THEN parseInt(parts[5]) ELSE 0,
                 !.fullmoveNumber = IF Len(parts) > 5 THEN parseInt(parts[6]) ELSE 1])]

(***************************************************************************)
(* Zobrist hashing.  The keys come from the xorshift64 generator seeded    *)
(* with 1070372, in the order initializeZobrist draws them: 768 piece-     *)
(* square keys, the side key, 4 castling keys, 8 en passant keys.          *)
(***************************************************************************)
xor(hash, key) == (hash \ key) \cup (key \ hash)

RECURSIVE xorAll(_, _)
xorAll(hash, keys) == IF keys = <<>> THEN hash ELSE xorAll(xor(hash, Head(keys)), Tail(keys))

\* PRNG.next: x ^= x << 13n; x ^= x >> 7n; x ^= x << 17n; x &= 2^64 - 1
PRNG_next(x) ==
  LET a == xor(x, shl(x, 13))
      b == xor(a, shr(a, 7))
  IN  xor(b, shl(b, 17)) \cap FULL

\* the generator, started at `state`, called until n numbers are drawn
RECURSIVE PRNG_sequence(_, _, _)
PRNG_sequence(state, n, drawn) ==
  IF Len(drawn) = n THEN drawn
  ELSE PRNG_sequence(PRNG_next(state), n, Append(drawn, PRNG_next(state)))

\* ZOBRIST_PIECES: for each piece in turn, 64 numbers from the generator
RECURSIVE zobristPieces(_, _)
zobristPieces(state, rows) ==
  IF Len(rows) = 12 THEN rows
  ELSE zobristPieces(PRNG_sequence(state, 64, <<>>)[64],
                     Append(rows, PRNG_sequence(state, 64, <<>>)))

\* the seed 1070372 = 16 * 65536 + 21796
ZobristPieceKeys == zobristPieces(Bits64(<<0, 0, 16, 21796>>), <<>>)

\* the 13 numbers drawn after the piece-square keys
ZobristOtherKeys == PRNG_sequence(ZobristPieceKeys[12][64], 13, <<>>)

ZOBRIST_PIECES(piece, square) == ZobristPieceKeys[piece + 1][square + 1]

ZOBRIST_SIDE == ZobristOtherKeys[1]

ZOBRIST_CASTLING(i) == ZobristOtherKeys[2 + i]

ZOBRIST_EN_PASSANT(file) == ZobristOtherKeys[6 + file]

hasBit(n, b) == (n \div Pow2(b)) % 2 = 1

RECURSIVE hashPieces(_, _, _)
hashPieces(hash, bitboards, piece) ==
  IF piece > 11 THEN hash
  ELSE hashPieces(
         xorAll(hash, [i \in 1..Cardinality(bitboards[piece]) |->
                         ZOBRIST_PIECES(piece, getSquares(bitboards[piece])[i])]),
         bitboards, piece + 1)

\* the squares come from bitScanForward, as in getSquares
computeZobristHash(bitboards, sideToMove, castlingRights, enPassantSquare) ==
  LET pieces == hashPieces({}, bitboards, 0)
      side == IF sideToMove = "black" THEN xor(pieces, ZOBRIST_SIDE) ELSE pieces
      castling == xorAll(side, [i \in 1..Cardinality(Bits16(castlingRights)) |->
                    ZOBRIST_CASTLING(SortedSeq(Bits16(castlingRights))[i])])
  IN  IF enPassantSquare >= 0
      THEN xor(castling, ZOBRIST_EN_PASSANT(enPassantSquare % 8))
      ELSE castling

hashMovePiece(hash, piece, from, to) ==
  xor(xor(hash, ZOBRIST_PIECES(piece, from)), ZOBRIST_PIECES(piece, to))

hashAddPiece(hash, piece, square) == xor(hash, ZOBRIST_PIECES(piece, square))

hashRemovePiece(hash, piece, square) == xor(hash, ZOBRIST_PIECES(piece, square))

hashSideToMove(hash) == xor(hash, ZOBRIST_SIDE)

hashCastling(hash, oldRights, newRights) ==
  LET changed == (Bits16(oldRights) \ Bits16(newRights))
                   \cup (Bits16(newRights) \ Bits16(oldRights))
  IN  xorAll(hash, [i \in 1..Cardinality(changed) |->
                      ZOBRIST_CASTLING(SortedSeq(changed)[i])])

hashEnPassant(hash, oldSquare, newSquare) ==
  LET removed == IF oldSquare >= 0
                 THEN xor(hash, ZOBRIST_EN_PASSANT(oldSquare % 8)) ELSE hash
  IN  IF newSquare >= 0
      THEN xor(removed, ZOBRIST_EN_PASSANT(newSquare % 8)) ELSE removed

(***************************************************************************)
(* Move generation.  A MoveList is the sequence of the moves pushed.       *)
(***************************************************************************)
(* Position.toFEN                                                          *)
(***************************************************************************)
\* an alternative pieceIndexToChar that gives Black's pieces White's letters
pieceIndexToUpperChar(piece) ==
  IF piece \in 0..11 THEN PieceChars[(piece % 6) + 1] ELSE "?"

pieceIndexToChar(piece) == IF piece \in 0..11 THEN PieceChars[piece + 1] ELSE "?"

\* Number.prototype.toString of a clock: "NaN" for NaN
clockToString(n) == IF n = NaN THEN <<"N", "a", "N">> ELSE toString(n)

\* one row of toFEN's piece placement, from `file` on, `empty` squares pending
RECURSIVE rowToFEN(_, _, _, _)
rowToFEN(pos, rank, file, empty) ==
  IF file > 7 THEN (IF empty > 0 THEN toString(empty) ELSE <<>>)
  ELSE IF pieceAt(pos, makeSquare(file, rank)) = -1
  THEN rowToFEN(pos, rank, file + 1, empty + 1)
  ELSE (IF empty > 0 THEN toString(empty) ELSE <<>>)
       \o <<pieceIndexToChar(pieceAt(pos, makeSquare(file, rank)))>>
       \o rowToFEN(pos, rank, file + 1, 0)

\* rows.join('/') of the rows from `rank` down to the first rank
RECURSIVE rowsToFEN(_, _)
rowsToFEN(pos, rank) ==
  IF rank = 0 THEN rowToFEN(pos, 0, 0, 0)
  ELSE rowToFEN(pos, rank, 0, 0) \o <<"/">> \o rowsToFEN(pos, rank - 1)

castlingToFEN(castlingRights) ==
  LET castling == (IF hasBit(castlingRights, 0) THEN <<"K">> ELSE <<>>)
                  \o (IF hasBit(castlingRights, 1) THEN <<"Q">> ELSE <<>>)
                  \o (IF hasBit(castlingRights, 2) THEN <<"k">> ELSE <<>>)
                  \o (IF hasBit(castlingRights, 3) THEN <<"q">> ELSE <<>>)
  IN  IF castling = <<>> THEN <<"-">> ELSE castling

\* Position.toFEN
toFEN(pos) ==
  rowsToFEN(pos, 7)
  \o <<" ">> \o (IF pos.sideToMove = "white" THEN <<"w">> ELSE <<"b">>)
  \o <<" ">> \o castlingToFEN(pos.castlingRights)
  \o <<" ">> \o (IF pos.enPassantSquare = -1 THEN <<"-">>
                 ELSE <<fromCharCode(97 + fileOf(pos.enPassantSquare))>>
                      \o toString(rankOf(pos.enPassantSquare) + 1))
  \o <<" ">> \o clockToString(pos.halfmoveClock)
  \o <<" ">> \o clockToString(pos.fullmoveNumber)

(***************************************************************************)
\* for (const x of seq) { push every move of body(x) }
RECURSIVE concat(_)
concat(seqs) == IF seqs = <<>> THEN <<>> ELSE Head(seqs) \o concat(Tail(seqs))

forEach(seq, body(_)) == concat([i \in 1..Len(seq) |-> body(seq[i])])

\* for (const to of getSquares(targets)) moves.push(createMove(from, to, flags))
pushTargets(from, targets, flags) ==
  forEach(getSquares(targets), LAMBDA to : <<createMove(from, to, flags)>>)

\* quiet moves, then captures, of one piece with the given attack mask
pushQuietAndCaptures(pos, from, attackMask, isWhite) ==
  LET friendly == IF isWhite THEN pos.whitePieces ELSE pos.blackPieces
      enemies == IF isWhite THEN pos.blackPieces ELSE pos.whitePieces
      attacks == attackMask \ friendly
  IN  pushTargets(from, attacks \ pos.allPieces, QUIET)
      \o pushTargets(from, attacks \cap enemies, CAPTURE)

generatePawnCaptures(pos, isWhite) ==
  LET pawns == IF isWhite THEN pos.bitboards[0] ELSE pos.bitboards[6]
      enemies == IF isWhite THEN pos.blackPieces ELSE pos.whitePieces
      promotionRank == IF isWhite THEN RANK_8 ELSE RANK_1
      epSquare == pos.enPassantSquare
  IN  forEach(getSquares(pawns), LAMBDA from :
        forEach(getSquares(getPawnAttacks(from, isWhite) \cap enemies), LAMBDA to :
          IF testBit(promotionRank, to)
          THEN <<createMove(from, to, KNIGHT_PROMO_CAPTURE),
                 createMove(from, to, BISHOP_PROMO_CAPTURE),
                 createMove(from, to, ROOK_PROMO_CAPTURE),
                 createMove(from, to, QUEEN_PROMO_CAPTURE)>>
          ELSE <<createMove(from, to, CAPTURE)>>))
      \o (IF epSquare >= 0
          THEN forEach(getSquares(pawns), LAMBDA from :
                 IF getPawnAttacks(from, isWhite) \cap squareBB(epSquare) # {}
                 THEN <<createMove(from, epSquare, EN_PASSANT)>>
                 ELSE <<>>)
          ELSE <<>>)

generatePawnMoves(pos, isWhite) ==
  LET pawns == IF isWhite THEN pos.bitboards[0] ELSE pos.bitboards[6]
      empty == FULL \ pos.allPieces
      promotionRank == IF isWhite THEN RANK_8 ELSE RANK_1
      startRank == IF isWhite THEN RANK_2 ELSE RANK_7
      doublePushRank == IF isWhite THEN RANK_4 ELSE RANK_5
      back == IF isWhite THEN -8 ELSE 8
      singlePush == IF isWhite THEN shiftNorth(pawns) \cap empty
                    ELSE shiftSouth(pawns) \cap empty
      eligiblePawns == pawns \cap startRank
      doublePush ==
        IF isWhite
        THEN shiftNorth(shiftNorth(eligiblePawns) \cap empty) \cap empty \cap doublePushRank
        ELSE shiftSouth(shiftSouth(eligiblePawns) \cap empty) \cap empty \cap doublePushRank
  IN  forEach(getSquares(singlePush \ promotionRank), LAMBDA to :
        <<createMove(to + back, to, QUIET)>>)
      \o forEach(getSquares(singlePush \cap promotionRank), LAMBDA to :
           <<createMove(to + back, to, KNIGHT_PROMO),
             createMove(to + back, to, BISHOP_PROMO),
             createMove(to + back, to, ROOK_PROMO),
             createMove(to + back, to, QUEEN_PROMO)>>)
      \o forEach(getSquares(doublePush), LAMBDA to :
           <<createMove(to + 2 * back, to, DOUBLE_PAWN_PUSH)>>)
      \o generatePawnCaptures(pos, isWhite)

generateKnightMoves(pos, isWhite) ==
  forEach(getSquares(IF isWhite THEN pos.bitboards[1] ELSE pos.bitboards[7]),
          LAMBDA from : pushQuietAndCaptures(pos, from, getKnightAttacks(from), isWhite))

generateBishopMoves(pos, isWhite) ==
  forEach(getSquares(IF isWhite THEN pos.bitboards[2] ELSE pos.bitboards[8]),
          LAMBDA from : pushQuietAndCaptures(
                          pos, from, getBishopAttacks(from, pos.allPieces), isWhite))

generateRookMoves(pos, isWhite) ==
  forEach(getSquares(IF isWhite THEN pos.bitboards[3] ELSE pos.bitboards[9]),
          LAMBDA from : pushQuietAndCaptures(
                          pos, from, getRookAttacks(from, pos.allPieces), isWhite))

generateQueenMoves(pos, isWhite) ==
  forEach(getSquares(IF isWhite THEN pos.bitboards[4] ELSE pos.bitboards[10]),
          LAMBDA from : pushQuietAndCaptures(
                          pos, from, getQueenAttacks(from, pos.allPieces), isWhite))

generateCastlingMoves(pos, isWhite, square) ==
  LET base == IF isWhite THEN 0 ELSE 56
      kingsideRight == IF isWhite THEN 0 ELSE 2
      queensideRight == IF isWhite THEN 1 ELSE 3
      free(sq) == ~testBit(pos.allPieces, sq)
  IN  IF square # base + 4 THEN <<>>
      ELSE (IF hasBit(pos.castlingRights, kingsideRight) /\ free(base + 5) /\ free(base + 6)
            THEN <<createMove(square, base + 6, KING_CASTLE)>> ELSE <<>>)
           \o (IF /\ hasBit(pos.castlingRights, queensideRight)
                  /\ free(base + 3) /\ free(base + 2) /\ free(base + 1)
               THEN <<createMove(square, base + 2, QUEEN_CASTLE)>> ELSE <<>>)

generateKingMoves(pos, isWhite) ==
  LET kingSquares == getSquares(IF isWhite THEN pos.bitboards[5] ELSE pos.bitboards[11])
      from == kingSquares[1]
  IN  IF kingSquares = <<>> THEN <<>>
      ELSE pushQuietAndCaptures(pos, from, getKingAttacks(from), isWhite)
           \o generateCastlingMoves(pos, isWhite, from)

generateMoves(pos) ==
  LET isWhite == pos.sideToMove = "white"
  IN  generatePawnMoves(pos, isWhite) \o generateKnightMoves(pos, isWhite)
      \o generateBishopMoves(pos, isWhite) \o generateRookMoves(pos, isWhite)
      \o generateQueenMoves(pos, isWhite) \o generateKingMoves(pos, isWhite)

\* defined for squares 0..63; for any other square KNIGHT_ATTACKS[square] is
\* undefined and `undefined & knights` throws a TypeError (see makeMove)
isSquareAttacked(pos, square, byWhite) ==
  LET off == IF byWhite THEN 0 ELSE 6
      bb == pos.bitboards
  IN  \/ getKnightAttacks(square) \cap bb[off + 1] # {}
      \/ getKingAttacks(square) \cap bb[off + 5] # {}
      \/ getPawnAttacks(square, ~byWhite) \cap bb[off] # {}
      \/ getBishopAttacks(square, pos.allPieces) \cap (bb[off + 2] \cup bb[off + 4]) # {}
      \/ getRookAttacks(square, pos.allPieces) \cap (bb[off + 3] \cup bb[off + 4]) # {}

\* isInCheck, for a position whose side to move has a king
isInCheck(pos) ==
  isSquareAttacked(pos, kingSquare(pos, pos.sideToMove), pos.sideToMove # "white")

(***************************************************************************)
(* makeMove / unmakeMove.  Each returns the Position as the call leaves it  *)
(* together with the call's outcome; "throw" is an uncaught exception.     *)
(***************************************************************************)
\* updateCastlingRights looking at the origin of the move only
castlingRightsByOrigin(rights, from, to) ==
  LET lost == (IF from = 4 THEN {0, 1} ELSE {})
              \cup (IF from = 60 THEN {2, 3} ELSE {})
              \cup (IF from = 0 THEN {1} ELSE {})
              \cup (IF from = 7 THEN {0} ELSE {})
              \cup (IF from = 56 THEN {3} ELSE {})
              \cup (IF from = 63 THEN {2} ELSE {})
  IN  FromBits(Bits16(rights) \ lost)

updateCastlingRights(rights, from, to) ==
  LET lost == (IF from = 4 THEN {0, 1} ELSE {})
              \cup (IF from = 60 THEN {2, 3} ELSE {})
              \cup (IF from = 0 \/ to = 0 THEN {1} ELSE {})
              \cup (IF from = 7 \/ to = 7 THEN {0} ELSE {})
              \cup (IF from = 56 \/ to = 56 THEN {3} ELSE {})
              \cup (IF from = 63 \/ to = 63 THEN {2} ELSE {})
  IN  FromBits(Bits16(rights) \ lost)

\* unmakeMove: pop both histories, switch the side back, restore the saved
\* fields, move the piece found on `to` back (or replace it by a pawn on
\* `from` for a promotion), move the rook back, restore the captured piece.
\* With no piece on `to`, bitboards[-1] is undefined and clearBit throws
\* after the scalar fields were restored.
unmakeMove(position, move) ==
  IF position.stateHistory = <<>> THEN [pos |-> position, threw |-> TRUE]
  ELSE
  LET state == position.stateHistory[Len(position.stateHistory)]
      from == getFromSquare(move)
      to == getToSquare(move)
      wasWhite == position.sideToMove = "black"
      pieceAtTo == pieceAt(position, to)
      restored ==
        [position EXCEPT
           !.stateHistory = SubSeq(@, 1, Len(@) - 1),
           !.positionHistory = SubSeq(@, 1, Len(@) - 1),
           !.sideToMove = IF wasWhite THEN "white" ELSE "black",
           !.castlingRights = state.castlingRights,
           !.enPassantSquare = state.enPassantSquare,
           !.halfmoveClock = state.halfmoveClock,
           !.zobristHash = state.zobristHash,
           !.fullmoveNumber = IF wasWhite \/ @ = NaN THEN @ ELSE @ - 1]
      back == IF isPromotion(move)
              THEN addPiece(removePiece(restored, pieceAtTo, to),
                            IF wasWhite THEN 0 ELSE 6, from)
              ELSE movePiece(restored, pieceAtTo, to, from)
      base == IF wasWhite THEN 0 ELSE 56
      rook == IF wasWhite THEN 3 ELSE 9
      rookBack == IF isKingsideCastle(move) THEN movePiece(back, rook, base + 5, base + 7)
                  ELSE IF isQueensideCastle(move) THEN movePiece(back, rook, base + 3, base)
                  ELSE back
      uncaptured == IF state.capturedPiece # -1
                    THEN IF isEnPassant(move)
                         THEN addPiece(rookBack, state.capturedPiece,
                                       IF wasWhite THEN to - 8 ELSE to + 8)
                         ELSE addPiece(rookBack, state.capturedPiece, to)
                    ELSE rookBack
  IN  IF pieceAtTo = -1 THEN [pos |-> restored, threw |-> TRUE]
      ELSE [pos |-> updateAggregateBitboards(uncaptured), threw |-> FALSE]

\* the en passant square with the skipped square taken below the
\* destination for either colour
enPassantBelow(move, isWhite) ==
  IF isDoublePawnPush(move) THEN getToSquare(move) - 8 ELSE -1

\* makeMove's new enPassantSquare
newEnPassantSquare(move, isWhite) ==
  IF isDoublePawnPush(move)
  THEN (IF isWhite THEN getToSquare(move) - 8 ELSE getToSquare(move) + 8)
  ELSE -1

\* the halfmove clock reset by pawn moves only
clockResetByPawns(halfmoveClock, isPawn, move) ==
  IF isPawn THEN 0 ELSE IF halfmoveClock = NaN THEN NaN ELSE halfmoveClock + 1

\* makeMove's new halfmoveClock
newHalfmoveClock(halfmoveClock, isPawn, move) ==
  IF isPawn \/ isCapture(move) THEN 0
  ELSE IF halfmoveClock = NaN THEN NaN ELSE halfmoveClock + 1

\* makeMove up to the two history pushes: the Position after the captured
\* piece is removed, the piece (and a castling rook) is moved, and rights,
\* en passant square, clocks, side and hash are updated
applyMove(position, move) ==
  LET from == getFromSquare(move)
      to == getToSquare(move)
      isWhite == position.sideToMove = "white"
      movingPiece == pieceAt(position, from)
      \* captures
      capturedPiece == IF isCapture(move) /\ ~isEnPassant(move)
                       THEN pieceAt(position, to) ELSE -1
      p1 == IF capturedPiece # -1 THEN removePiece(position, capturedPiece, to)
            ELSE position
      h1 == IF capturedPiece # -1
            THEN hashRemovePiece(position.zobristHash, capturedPiece, to)
            ELSE position.zobristHash
      \* en passant capture
      capturedSquare == IF isWhite THEN to - 8 ELSE to + 8
      capturedPawn == IF isWhite THEN 6 ELSE 0
      p2 == IF isEnPassant(move) THEN removePiece(p1, capturedPawn, capturedSquare) ELSE p1
      h2 == IF isEnPassant(move) THEN hashRemovePiece(h1, capturedPawn, capturedSquare)
            ELSE h1
      state == [castlingRights |-> position.castlingRights,
                enPassantSquare |-> position.enPassantSquare,
                halfmoveClock |-> position.halfmoveClock,
                capturedPiece |-> IF isEnPassant(move) THEN capturedPawn ELSE capturedPiece,
                zobristHash |-> position.zobristHash]
      \* the piece itself
      promoPiece == (IF isWhite THEN 1 ELSE 7) + getPromotionPiece(move)
      p3 == IF isPromotion(move)
            THEN addPiece(removePiece(p2, movingPiece, from), promoPiece, to)
            ELSE movePiece(p2, movingPiece, from, to)
      h3 == IF isPromotion(move)
            THEN hashAddPiece(hashRemovePiece(h2, movingPiece, from), promoPiece, to)
            ELSE hashMovePiece(h2, movingPiece, from, to)
      \* the castling rook
      base == IF isWhite THEN 0 ELSE 56
      rook == IF isWhite THEN 3 ELSE 9
      p4 == IF isKingsideCastle(move) THEN movePiece(p3, rook, base + 7, base + 5)
            ELSE IF isQueensideCastle(move) THEN movePiece(p3, rook, base, base + 3)
            ELSE p3
      h4 == IF isKingsideCastle(move) THEN hashMovePiece(h3, rook, base + 7, base + 5)
            ELSE IF isQueensideCastle(move) THEN hashMovePiece(h3, rook, base, base + 3)
            ELSE h3
      \* castling rights, en passant square, clocks, side
      newRights == updateCastlingRights(position.castlingRights, from, to)
      h5 == hashCastling(h4, position.castlingRights, newRights)
      newEp == newEnPassantSquare(move, isWhite)
      h6 == hashEnPassant(h5, position.enPassantSquare, newEp)
      isPawn == movingPiece = 0 \/ movingPiece = 6
  IN  [p4 EXCEPT
         !.castlingRights = newRights,
         !.enPassantSquare = newEp,
         !.halfmoveClock = newHalfmoveClock(@, isPawn, move),
         !.fullmoveNumber = IF isWhite \/ @ = NaN THEN @ ELSE @ + 1,
         !.sideToMove = IF isWhite THEN "black" ELSE "white",
         !.zobristHash = hashSideToMove(h6),
         !.stateHistory = Append(@, state),
         !.positionHistory = Append(@, hashSideToMove(h6))]

\* the end of makeMove: `made` is the Position after the history pushes.
\* With no king of the mover on squares 0..63, kingSquare is -1,
\* KNIGHT_ATTACKS[-1] is undefined and `undefined & knights` throws.
checkMove(move, made) ==
  LET from == getFromSquare(move)
      isWhite == made.sideToMove = "black"
      base == IF isWhite THEN 0 ELSE 56
      king == kingSquare(made, IF isWhite THEN "white" ELSE "black")
      throughSquare == IF isKingsideCastle(move) THEN base + 5 ELSE base + 3
      undone == unmakeMove(made, move)
      rejected == [pos |-> undone.pos,
                   result |-> IF undone.threw THEN "throw" ELSE "false"]
  IN  IF king = -1 THEN [pos |-> made, result |-> "throw"]
      ELSE IF isSquareAttacked(made, king, ~isWhite) THEN rejected
      ELSE IF /\ isKingsideCastle(move) \/ isQueensideCastle(move)
              /\ \/ isSquareAttacked(made, from, ~isWhite)
                 \/ isSquareAttacked(made, throughSquare, ~isWhite)
           THEN rejected
      ELSE [pos |-> made, result |-> "true"]

makeMove(position, move) ==
  IF pieceAt(position, getFromSquare(move)) = -1
  THEN [pos |-> position, result |-> "false"]
  ELSE checkMove(move, applyMove(position, move))

\* generateLegalMoves: every pseudo-legal move is made on the one Position
\* object and, when accepted, unmade again; the Position the loop leaves
\* behind is part of the result
RECURSIVE legalMovesLoop(_, _, _, _)
RECURSIVE legalMovesStep(_, _, _, _)
RECURSIVE legalMovesUndo(_, _, _, _)
legalMovesLoop(position, pseudoLegal, i, legal) ==
  IF i > Len(pseudoLegal) THEN [pos |-> position, legal |-> legal, threw |-> FALSE]
  ELSE legalMovesStep(makeMove(position, pseudoLegal[i]), pseudoLegal, i, legal)

\* the body of the loop, given what makeMove(position, move) returned
legalMovesStep(made, pseudoLegal, i, legal) ==
  IF made.result = "throw" THEN [pos |-> made.pos, legal |-> legal, threw |-> TRUE]
  ELSE IF made.result = "false" THEN legalMovesLoop(made.pos, pseudoLegal, i + 1, legal)
  ELSE legalMovesUndo(unmakeMove(made.pos, pseudoLegal[i]), pseudoLegal, i,
                      Append(legal, pseudoLegal[i]))

\* ... and, for an accepted move, what unmakeMove(position, move) returned
legalMovesUndo(unmade, pseudoLegal, i, legal) ==
  IF unmade.threw THEN [pos |-> unmade.pos, legal |-> legal, threw |-> TRUE]
  ELSE legalMovesLoop(unmade.pos, pseudoLegal, i + 1, legal)

generateLegalMoves(position) == legalMovesLoop(position, generateMoves(position), 1, <<>>)

(***************************************************************************)
(* Game state detection                                                    *)
(***************************************************************************)
isThreefoldRepetition(pos) ==
  Cardinality({i \in 1..Len(pos.positionHistory) :
                 pos.positionHistory[i] = pos.zobristHash}) >= 3

\* lightSquares = 0x55AA55AA55AA55AA: the squares with file + rank odd
lightSquares == {sq \in FULL : (fileOf(sq) + rankOf(sq)) % 2 = 1}

\* an alternative isInsufficientMaterial that looks only at how many minor
\* pieces each side has, and at the bishops' squares when each has one bishop
insufficientByMinorCount(pos) ==
  LET count(piece) == popCount(pos.bitboards[piece])
  IN  /\ \A piece \in {0, 3, 4, 6, 9, 10} : count(piece) = 0
      /\ count(1) + count(2) <= 1
      /\ count(7) + count(8) <= 1
      /\ (count(2) = 1 /\ count(8) = 1)
           => (pos.bitboards[2] \cap lightSquares # {})
                = (pos.bitboards[8] \cap lightSquares # {})

isInsufficientMaterial(pos) ==
  LET count(piece) == popCount(pos.bitboards[piece])
      whiteMinor == count(1) + count(2)
      blackMinor == count(7) + count(8)
  IN  IF count(0) > 0 \/ count(6) > 0 THEN FALSE
      ELSE IF count(3) > 0 \/ count(9) > 0 THEN FALSE
      ELSE IF count(4) > 0 \/ count(10) > 0 THEN FALSE
      ELSE IF whiteMinor = 0 /\ blackMinor = 0 THEN TRUE
      ELSE IF whiteMinor = 0 /\ blackMinor = 1 THEN TRUE
      ELSE IF whiteMinor = 1 /\ blackMinor = 0 THEN TRUE
      ELSE /\ whiteMinor = 1 /\ blackMinor = 1 /\ count(2) = 1 /\ count(8) = 1
           /\ (pos.bitboards[2] \cap lightSquares # {})
                = (pos.bitboards[8] \cap lightSquares # {})

\* getGameState with the repetition test moved ahead of the fifty-move test
gameStateRepetitionFirst(inCheck, generated) ==
  LET pos == generated.pos
      report(status, winner, check) ==
        [pos |-> pos, status |-> status, winner |-> winner, inCheck |-> check]
  IN  IF generated.threw THEN report("throw", "null", inCheck)
      ELSE IF Len(generated.legal) = 0
      THEN IF inCheck
           THEN report("checkmate",
                       IF pos.sideToMove = "white" THEN "black" ELSE "white", TRUE)
           ELSE report("stalemate", "null", FALSE)
      ELSE IF isThreefoldRepetition(pos) THEN report("draw_repetition", "null", inCheck)
      ELSE IF pos.halfmoveClock # NaN /\ pos.halfmoveClock >= 100
      THEN report("draw_fifty_move", "null", inCheck)
      ELSE IF isInsufficientMaterial(pos)
      THEN report("draw_insufficient_material", "null", inCheck)
      ELSE report("ongoing", "null", inCheck)

\* the rest of getGameState, given isInCheck's answer and what
\* generateLegalMoves returned (its list and the Position it left)
gameStateOf(inCheck, generated) ==
  LET pos == generated.pos
      report(status, winner, check) ==
        [pos |-> pos, status |-> status, winner |-> winner, inCheck |-> check]
  IN  IF generated.threw THEN report("throw", "null", inCheck)
      ELSE IF Len(generated.legal) = 0
      THEN IF inCheck
           THEN report("checkmate",
                       IF pos.sideToMove = "white" THEN "black" ELSE "white", TRUE)
           ELSE report("stalemate", "null", FALSE)
      ELSE IF pos.halfmoveClock # NaN /\ pos.halfmoveClock >= 100
      THEN report("draw_fifty_move", "null", inCheck)
      ELSE IF isThreefoldRepetition(pos) THEN report("draw_repetition", "null", inCheck)
      ELSE IF isInsufficientMaterial(pos)
      THEN report("draw_insufficient_material", "null", inCheck)
      ELSE report("ongoing", "null", inCheck)

\* isInCheck throws when the side to move has no king (kingSquare is -1)
getGameState(position) ==
  IF kingSquare(position, position.sideToMove) = -1
  THEN [pos |-> position, status |-> "throw", winner |-> "null", inCheck |-> FALSE]
  ELSE gameStateOf(isInCheck(position), generateLegalMoves(position))

(***************************************************************************)
(* Engine.move(uci): the first generated move whose coordinate string is   *)
(* uci is handed to makeMove                                                *)
(***************************************************************************)
uciStrings(generated) == [n \in 1..Len(generated) |-> moveToUCI(generated[n])]

\* the first generated move whose string is uci (-1 if none, or if parseUCI
\* returns null)
matched(uci, generated, strings) ==
  LET matching == {n \in 1..Len(generated) : strings[n] = uci}
  IN  IF ~parseUCI(uci).ok \/ matching = {} THEN -1 ELSE generated[Min(matching)]

Engine_move(position, uci, generated, strings) ==
  IF matched(uci, generated, strings) = -1 THEN [pos |-> position, result |-> "false"]
  ELSE makeMove(position, matched(uci, generated, strings))

(***************************************************************************)
(* Evaluation: material and piece-square tables, in centipawns             *)
(***************************************************************************)
pieceValues == <<100, 320, 330, 500, 900, 20000>>

PAWN_TABLE ==
  <<  0,   0,   0,   0,   0,   0,   0,   0,
     50,  50,  50,  50,  50,  50,  50,  50,
     10,  10,  20,  30,  30,  20,  10,  10,
      5,   5,  10,  25,  25,  10,   5,   5,
      0,   0,   0,  20,  20,   0,   0,   0,
      5,  -5, -10,   0,   0, -10,  -5,   5,
      5,  10,  10, -20, -20,  10,  10,   5,
      0,   0,   0,   0,   0,   0,   0,   0>>

KNIGHT_TABLE ==
  <<-50, -40, -30, -30, -30, -30, -40, -50,
    -40, -20,   0,   0,   0,   0, -20, -40,
    -30,   0,  10,  15,  15,  10,   0, -30,
    -30,   5,  15,  20,  20,  15,   5, -30,
    -30,   0,  15,  20,  20,  15,   0, -30,
    -30,   5,  10,  15,  15,  10,   5, -30,
    -40, -20,   0,   5,   5,   0, -20, -40,
    -50, -40, -30, -30, -30, -30, -40, -50>>

BISHOP_TABLE ==
  <<-20, -10, -10, -10, -10, -10, -10, -20,
    -10,   0,   0,   0,   0,   0,   0, -10,
    -10,   0,   5,  10,  10,   5,   0, -10,
    -10,   5,   5,  10,  10,   5,   5, -10,
    -10,   0,  10,  10,  10,  10,   0, -10,
    -10,  10,  10,  10,  10,  10,  10, -10,
    -10,   5,   0,   0,   0,   0,   5, -10,
    -20, -10, -10, -10, -10, -10, -10, -20>>

ROOK_TABLE ==
  <<  0,   0,   0,   0,   0,   0,   0,   0,
      5,  10,  10,  10,  10,  10,  10,   5,
     -5,   0,   0,   0,   0,   0,   0,  -5,
     -5,   0,   0,   0,   0,   0,   0,  -5,
     -5,   0,   0,   0,   0,   0,   0,  -5,
     -5,   0,   0,   0,   0,   0,   0,  -5,
     -5,   0,   0,   0,   0,   0,   0,  -5,
      0,   0,   0,   5,   5,   0,   0,   0>>

QUEEN_TABLE ==
  <<-20, -10, -10,  -5,  -5, -10, -10, -20,
    -10,   0,   0,   0,   0,   0,   0, -10,
    -10,   0,   5,   5,   5,   5,   0, -10,
     -5,   0,   5,   5,   5,   5,   0,  -5,
      0,   0,   5,   5,   5,   5,   0,  -5,
    -10,   5,   5,   5,   5,   5,   0, -10,
    -10,   0,   5,   0,   0,   0,   0, -10,
    -20, -10, -10,  -5,  -5, -10, -10, -20>>

KING_MIDDLE_GAME_TABLE ==
  <<-30, -40, -40, -50, -50, -40, -40, -30,
    -30, -40, -40, -50, -50, -40, -40, -30,
    -30, -40, -40, -50, -50, -40, -40, -30,
    -30, -40, -40, -50, -50, -40, -40, -30,
    -20, -30, -30, -40, -40, -30, -30, -20,
    -10, -20, -20, -20, -20, -20, -20, -10,
     20,  20,   0,   0,   0,   0,  20,  20,
     20,  30,  10,   0,   0,  10,  30,  20>>

KING_END_GAME_TABLE ==
  <<-50, -40, -30, -20, -20, -30, -40, -50,
    -30, -20, -10,   0,   0, -10, -20, -30,
    -30, -10,  20,  30,  30,  20, -10, -30,
    -30, -10,  30,  40,  40,  30, -10, -30,
    -30, -10,  30,  40,  40,  30, -10, -30,
    -30, -10,  20,  30,  30,  20, -10, -30,
    -30, -30,   0,   0,   0,   0, -30, -30,
    -50, -30, -30, -30, -30, -30, -30, -50>>

mirrorSquare(square) == (7 - rankOf(square)) * 8 + fileOf(square)

getPieceSquareValue(pieceIndex, square, endgame) ==
  LET sq == IF pieceIndex < 6 THEN square ELSE mirrorSquare(square)
  IN  CASE pieceIndex % 6 = 0 -> PAWN_TABLE[sq + 1]
        [] pieceIndex % 6 = 1 -> KNIGHT_TABLE[sq + 1]
        [] pieceIndex % 6 = 2 -> BISHOP_TABLE[sq + 1]
        [] pieceIndex % 6 = 3 -> ROOK_TABLE[sq + 1]
        [] pieceIndex % 6 = 4 -> QUEEN_TABLE[sq + 1]
        [] pieceIndex % 6 = 5 -> IF endgame THEN KING_END_GAME_TABLE[sq + 1]
                                 ELSE KING_MIDDLE_GAME_TABLE[sq + 1]

RECURSIVE sum(_)
sum(seq) == IF seq = <<>> THEN 0 ELSE Head(seq) + sum(Tail(seq))

\* no queens, or at most six knights, bishops, rooks and queens in all
isEndgame(pos) ==
  \/ pos.bitboards[4] = {} /\ pos.bitboards[10] = {}
  \/ sum([i \in 1..4 |-> Len(getSquares(pos.bitboards[i]))
                         + Len(getSquares(pos.bitboards[i + 6]))]) <= 6

\* what the squares that getSquares finds for one piece add to the score
pieceScore(pos, i, endgame) ==
  LET squares == getSquares(pos.bitboards[i])
  IN  sum([n \in 1..Len(squares) |->
             pieceValues[(i % 6) + 1] + getPieceSquareValue(i, squares[n], endgame)])

evaluate(pos) ==
  sum([i \in 1..6 |-> pieceScore(pos, i - 1, isEndgame(pos))])
  - sum([i \in 1..6 |-> pieceScore(pos, i + 5, isEndgame(pos))])

evaluateRelative(pos) == IF pos.sideToMove = "white" THEN evaluate(pos) ELSE -evaluate(pos)

(***************************************************************************)
(* TranspositionTable: `table` holds the slots that are not null, by index *)
(***************************************************************************)
TTSizeMB == 64

RECURSIVE floorLog2(_)
floorLog2(n) == IF n < 2 THEN 0 ELSE 1 + floorLog2(n \div 2)

\* new TranspositionTable(sizeMB)
newTranspositionTable(sizeMB) ==
  [table |-> <<>>,
   size |-> 2^floorLog2((sizeMB * 1024 * 1024) \div 32),
   age |-> 0]

\* Number(hash & BigInt(size - 1)), size being a power of two
getIndex(tt, hash) ==
  sum([b \in 1..floorLog2(tt.size) |-> IF (b - 1) \in hash THEN 2^(b - 1) ELSE 0])

\* what a slot holds: <<>> for null, <<entry>> for an entry
slot(tt, index) == IF index \in DOMAIN tt.table THEN <<tt.table[index]>> ELSE <<>>

replaces(tt, existing, zobristHash, depth) ==
  \/ existing = <<>>
  \/ existing[1].zobristHash = zobristHash
  \/ depth >= existing[1].depth
  \/ existing[1].age < tt.age

\* an alternative store that replaces whatever the slot holds
storeAlways(tt, zobristHash, depth, score, type, bestMove) ==
  [tt EXCEPT !.table =
     (getIndex(tt, zobristHash) :>
        [zobristHash |-> zobristHash, depth |-> depth, score |-> score,
         type |-> type, bestMove |-> bestMove, age |-> tt.age]) @@ tt.table]

store(tt, zobristHash, depth, score, type, bestMove) ==
  IF replaces(tt, slot(tt, getIndex(tt, zobristHash)), zobristHash, depth)
  THEN [tt EXCEPT !.table =
          (getIndex(tt, zobristHash) :>
             [zobristHash |-> zobristHash, depth |-> depth, score |-> score,
              type |-> type, bestMove |-> bestMove, age |-> tt.age]) @@ tt.table]
  ELSE tt

\* an alternative probe that returns whatever the slot holds
probeSlot(tt, zobristHash) == slot(tt, getIndex(tt, zobristHash))

\* <<>> for null, <<entry>> for an entry
probe(tt, zobristHash) ==
  IF /\ slot(tt, getIndex(tt, zobristHash)) # <<>>
     /\ slot(tt, getIndex(tt, zobristHash))[1].zobristHash = zobristHash
  THEN slot(tt, getIndex(tt, zobristHash))
  ELSE <<>>

clear(tt) == [tt EXCEPT !.table = <<>>, !.age = 0]

incrementAge(tt) == [tt EXCEPT !.age = tt.age + 1]

(***************************************************************************)
(* Search: negamax with alpha-beta pruning, quiescence and move ordering.  *)
(* What a call works on is passed along as ctx: the Position, the global   *)
(* transposition table, stats.nodes and stats.qnodes, and whether an       *)
(* exception is on its way up.  A call returns ctx and its score.  ctx     *)
(* also keeps a record of the search, which no call reads: `ordered` holds *)
(* <<cached move, moves in the order of the loop>> of each negamax node    *)
(* that reached its loop, `scored` holds <<Position, ply, score>> of each  *)
(* node that returned from the table or as a terminal node, `followed`     *)
(* holds <<pieces before the move, pieces after it>> of each move that     *)
(* quiescence made and recursed on.                                        *)
(***************************************************************************)
MATE_SCORE == 100000

INFINITY == 200000

\* TTEntryType
EXACT == 0

LOWER == 1

UPPER == 2

returned(ctx, score) == [ctx |-> ctx, score |-> score]

thrown(ctx, pos) == [ctx |-> [ctx EXCEPT !.pos = pos, !.threw = TRUE], score |-> 0]

\* a return that is put on record
scored(ctx, pos, ply, score) ==
  returned([ctx EXCEPT !.scored = @ \cup {<<pos, ply, score>>}], score)

getPieceValue(pieceIndex) == <<100, 320, 330, 500, 900, 20000>>[(pieceIndex % 6) + 1]

getMVVLVAScore(move, pos) ==
  LET attacker == pieceAt(pos, getFromSquare(move))
      victim == pieceAt(pos, getToSquare(move))
  IN  IF attacker = -1 \/ victim = -1 THEN 0
      ELSE getPieceValue(victim) * 10 - getPieceValue(attacker)

\* Array.prototype.sort is stable: the captures by falling MVV-LVA score,
\* equal scores in their old order
RECURSIVE sortCaptures(_, _)
sortCaptures(captures, pos) ==
  IF captures = <<>> THEN <<>>
  ELSE LET best == Max({getMVVLVAScore(captures[n], pos) : n \in 1..Len(captures)})
           first == Min({n \in 1..Len(captures) :
                           getMVVLVAScore(captures[n], pos) = best})
       IN  <<captures[first]>>
           \o sortCaptures(SubSeq(captures, 1, first - 1)
                           \o SubSeq(captures, first + 1, Len(captures)), pos)

\* the captures first, then the quiet moves in their old order
orderMoves(list, pos) ==
  sortCaptures(SelectSeq(list, isCapture), pos)
  \o SelectSeq(list, LAMBDA move : ~isCapture(move))

\* the transposition table's move, if it is in the list past its head, is
\* taken out and put in front
ttMoveFirst(legalMoves, ttEntry) ==
  IF ttEntry = <<>> \/ ttEntry[1].bestMove \in {-1, 0} THEN legalMoves
  ELSE LET found == {n \in 1..Len(legalMoves) : legalMoves[n] = ttEntry[1].bestMove}
       IN  IF found = {} \/ Min(found) = 1 THEN legalMoves
           ELSE <<legalMoves[Min(found)]>>
                \o SubSeq(legalMoves, 1, Min(found) - 1)
                \o SubSeq(legalMoves, Min(found) + 1, Len(legalMoves))

\* the number of pieces on the board
pieceCount(pos) ==
  Cardinality(UNION {{<<piece, square>> : square \in pos.bitboards[piece]} :
                       piece \in 0..11})

RECURSIVE quiescence(_, _, _)
RECURSIVE quiescenceLoop(_, _, _, _)
RECURSIVE quiescenceMade(_, _, _, _, _)
RECURSIVE quiescenceChild(_, _, _, _)
RECURSIVE quiescenceUnmade(_, _, _, _, _)

quiescenceUnmade(child, unmade, moves, alpha, beta) ==
  IF unmade.threw THEN thrown(child.ctx, unmade.pos)
  ELSE IF -child.score >= beta
  THEN returned([child.ctx EXCEPT !.pos = unmade.pos], beta)
  ELSE quiescenceLoop([child.ctx EXCEPT !.pos = unmade.pos], Tail(moves),
                      Max({alpha, -child.score}), beta)

quiescenceChild(child, moves, alpha, beta) ==
  IF child.ctx.threw THEN child
  ELSE quiescenceUnmade(child, unmakeMove(child.ctx.pos, Head(moves)),
                        moves, alpha, beta)

quiescenceMade(ctx, made, moves, alpha, beta) ==
  IF made.result = "throw" THEN thrown(ctx, made.pos)
  ELSE IF made.result = "false"
  THEN quiescenceLoop([ctx EXCEPT !.pos = made.pos], Tail(moves), alpha, beta)
  ELSE quiescenceChild(quiescence([ctx EXCEPT !.pos = made.pos,
                                              !.followed = @ \cup
                                                {<<pieceCount(ctx.pos),
                                                   pieceCount(made.pos)>>}],
                                  -beta, -alpha),
                       moves, alpha, beta)

quiescenceLoop(ctx, moves, alpha, beta) ==
  IF moves = <<>> THEN returned(ctx, alpha)
  ELSE quiescenceMade(ctx, makeMove(ctx.pos, Head(moves)), moves, alpha, beta)

\* after the stand-pat test, with what generateLegalMoves returned
quiescenceMoves(ctx, generated, alpha, beta) ==
  IF generated.threw THEN thrown(ctx, generated.pos)
  ELSE quiescenceLoop([ctx EXCEPT !.pos = generated.pos],
                      orderMoves(SelectSeq(generated.legal, isCapture), generated.pos),
                      alpha, beta)

quiescenceFrom(ctx, standPat, alpha, beta) ==
  IF standPat >= beta THEN returned(ctx, beta)
  ELSE quiescenceMoves(ctx, generateLegalMoves(ctx.pos), Max({alpha, standPat}), beta)

quiescence(ctx, alpha, beta) ==
  quiescenceFrom([ctx EXCEPT !.qnodes = @ + 1], evaluateRelative(ctx.pos), alpha, beta)

RECURSIVE negamax(_, _, _, _, _)
RECURSIVE negamaxLoop(_, _, _, _, _, _, _, _, _)
RECURSIVE negamaxMade(_, _, _, _, _, _, _, _, _, _)
RECURSIVE negamaxChild(_, _, _, _, _, _, _, _, _)
RECURSIVE negamaxUnmade(_, _, _, _, _, _, _, _, _, _)

\* the child has returned and its move is unmade
negamaxUnmade(child, unmade, moves, depth, alpha, beta, originalAlpha, statsDepth, bestScore, bestMove) ==
  IF unmade.threw THEN thrown(child.ctx, unmade.pos)
  ELSE IF Max({alpha, -child.score}) >= beta
  THEN returned([child.ctx EXCEPT
                   !.pos = unmade.pos,
                   !.tt = store(@, unmade.pos.zobristHash, depth, beta, LOWER,
                                IF -child.score > bestScore THEN Head(moves)
                                ELSE bestMove)],
                beta)
  ELSE negamaxLoop([child.ctx EXCEPT !.pos = unmade.pos], Tail(moves), depth,
                   Max({alpha, -child.score}), beta, originalAlpha, statsDepth,
                   Max({bestScore, -child.score}),
                   IF -child.score > bestScore THEN Head(moves) ELSE bestMove)

negamaxChild(child, moves, depth, alpha, beta, originalAlpha, statsDepth, bestScore, bestMove) ==
  IF child.ctx.threw THEN child
  ELSE negamaxUnmade(child, unmakeMove(child.ctx.pos, Head(moves)), moves, depth,
                     alpha, beta, originalAlpha, statsDepth, bestScore, bestMove)

negamaxMade(ctx, made, moves, depth, alpha, beta, originalAlpha, statsDepth, bestScore, bestMove) ==
  IF made.result = "throw" THEN thrown(ctx, made.pos)
  ELSE IF made.result = "false"
  THEN negamaxLoop([ctx EXCEPT !.pos = made.pos], Tail(moves), depth, alpha, beta,
                   originalAlpha, statsDepth, bestScore, bestMove)
  ELSE negamaxChild(negamax([ctx EXCEPT !.pos = made.pos], depth - 1, -beta, -alpha,
                            statsDepth),
                    moves, depth, alpha, beta, originalAlpha, statsDepth,
                    bestScore, bestMove)

\* the loop over the ordered legal moves, and the store that follows it
negamaxLoop(ctx, moves, depth, alpha, beta, originalAlpha, statsDepth, bestScore, bestMove) ==
  IF moves = <<>>
  THEN returned([ctx EXCEPT
                   !.tt = store(@, ctx.pos.zobristHash, depth, bestScore,
                                IF bestScore <= originalAlpha THEN UPPER ELSE EXACT,
                                bestMove)],
                bestScore)
  ELSE negamaxMade(ctx, makeMove(ctx.pos, Head(moves)), moves, depth, alpha, beta,
                   originalAlpha, statsDepth, bestScore, bestMove)

\* the moves are in the order of the loop
negamaxOrdered(ctx, ttEntry, legalMoves, depth, alpha, beta, originalAlpha, statsDepth) ==
  negamaxLoop([ctx EXCEPT !.ordered = @ \cup {<<IF ttEntry = <<>> THEN -1
                                                 ELSE ttEntry[1].bestMove,
                                                legalMoves>>}],
              legalMoves, depth, alpha, beta, originalAlpha, statsDepth, -INFINITY, -1)

\* past the leaf test, with what generateLegalMoves returned
negamaxMoves(ctx, ttEntry, generated, depth, alpha, beta, originalAlpha, statsDepth) ==
  IF generated.threw THEN thrown(ctx, generated.pos)
  ELSE IF generated.legal = <<>> THEN returned([ctx EXCEPT !.pos = generated.pos], 0)
  ELSE negamaxOrdered([ctx EXCEPT !.pos = generated.pos], ttEntry,
                      orderMoves(ttMoveFirst(generated.legal, ttEntry), generated.pos),
                      depth, alpha, beta, originalAlpha, statsDepth)

\* past the probe, with what getGameState returned
negamaxState(ctx, ttEntry, gameState, depth, alpha, beta, originalAlpha, statsDepth) ==
  IF gameState.status = "throw" THEN thrown(ctx, gameState.pos)
  ELSE IF gameState.status = "checkmate"
  THEN scored([ctx EXCEPT !.pos = gameState.pos], gameState.pos,
              statsDepth - depth, -MATE_SCORE + (statsDepth - depth))
  ELSE IF gameState.status # "ongoing"
  THEN scored([ctx EXCEPT !.pos = gameState.pos], gameState.pos,
              statsDepth - depth, 0)
  ELSE IF depth <= 0
  THEN quiescence([ctx EXCEPT !.pos = gameState.pos], alpha, beta)
  ELSE negamaxMoves([ctx EXCEPT !.pos = gameState.pos], ttEntry,
                    generateLegalMoves(gameState.pos), depth, alpha, beta,
                    originalAlpha, statsDepth)

\* with what the probe of the transposition table returned
negamaxProbed(ctx, ttEntry, depth, alpha, beta, statsDepth) ==
  IF ttEntry # <<>> /\ ttEntry[1].depth >= depth
  THEN IF ttEntry[1].type = EXACT
       THEN scored(ctx, ctx.pos, statsDepth - depth,
                   ttEntry[1].score)
       ELSE IF (IF ttEntry[1].type = LOWER THEN Max({alpha, ttEntry[1].score}) ELSE alpha)
               >= (IF ttEntry[1].type = UPPER THEN Min({beta, ttEntry[1].score}) ELSE beta)
       THEN scored(ctx, ctx.pos, statsDepth - depth,
                   ttEntry[1].score)
       ELSE negamaxState(ctx, ttEntry, getGameState(ctx.pos), depth,
                         IF ttEntry[1].type = LOWER
                         THEN Max({alpha, ttEntry[1].score}) ELSE alpha,
                         IF ttEntry[1].type = UPPER
                         THEN Min({beta, ttEntry[1].score}) ELSE beta,
                         alpha, statsDepth)
  ELSE negamaxState(ctx, ttEntry, getGameState(ctx.pos), depth, alpha, beta, alpha,
                    statsDepth)

negamax(ctx, depth, alpha, beta, statsDepth) ==
  negamaxProbed([ctx EXCEPT !.nodes = @ + 1], probe(ctx.tt, ctx.pos.zobristHash),
                depth, alpha, beta, statsDepth)

\* searchPosition's loop over the root moves at one depth: what it leaves in
\* the Position, the table and the counters (ctx), and its bestMove, bestScore
searched(ctx, bestMove, bestScore) ==
  [ctx |-> ctx, bestMove |-> bestMove, bestScore |-> bestScore]

RECURSIVE searchLoop(_, _, _, _, _, _)

searchUnmade(child, unmade, legalMoves, depth, alpha, bestMove, bestScore) ==
  IF unmade.threw
  THEN searched(thrown(child.ctx, unmade.pos).ctx, bestMove, bestScore)
  ELSE IF -child.score > alpha
  THEN searchLoop([child.ctx EXCEPT !.pos = unmade.pos], Tail(legalMoves), depth,
                  -child.score, Head(legalMoves), -child.score)
  ELSE searchLoop([child.ctx EXCEPT !.pos = unmade.pos], Tail(legalMoves), depth,
                  alpha, bestMove, bestScore)

searchChild(child, legalMoves, depth, alpha, bestMove, bestScore) ==
  IF child.ctx.threw THEN searched(child.ctx, bestMove, bestScore)
  ELSE searchUnmade(child, unmakeMove(child.ctx.pos, Head(legalMoves)), legalMoves,
                    depth, alpha, bestMove, bestScore)

searchMade(ctx, made, legalMoves, depth, alpha, bestMove, bestScore) ==
  IF made.result = "throw"
  THEN searched(thrown(ctx, made.pos).ctx, bestMove, bestScore)
  ELSE IF made.result = "false"
  THEN searchLoop([ctx EXCEPT !.pos = made.pos], Tail(legalMoves), depth, alpha,
                  bestMove, bestScore)
  ELSE searchChild(negamax([ctx EXCEPT !.pos = made.pos], depth - 1, -INFINITY,
                           -alpha, depth),
                   legalMoves, depth, alpha, bestMove, bestScore)

searchLoop(ctx, legalMoves, depth, alpha, bestMove, bestScore) ==
  IF legalMoves = <<>> THEN searched(ctx, bestMove, bestScore)
  ELSE searchMade(ctx, makeMove(ctx.pos, Head(legalMoves)), legalMoves, depth,
                  alpha, bestMove, bestScore)

\* `if (timeLimit && ...)`: an absent budget and a budget of 0 are both falsy
given(timeLimit) == timeLimit # <<>> /\ timeLimit[1] # 0

(***************************************************************************)
(* perft: the number of leaves of the tree of accepted moves.  A call      *)
(* returns the Position as it leaves it, the count, and whether an         *)
(* exception went up.                                                      *)
(***************************************************************************)
counted(pos, nodes, threw) == [pos |-> pos, nodes |-> nodes, threw |-> threw]

RECURSIVE perft(_, _)
RECURSIVE perftLoop(_, _, _, _)

perftUnmade(unmade, child, list, depth, nodes) ==
  IF unmade.threw THEN counted(unmade.pos, nodes, TRUE)
  ELSE perftLoop(unmade.pos, Tail(list), depth, nodes + child.nodes)

perftChild(child, list, depth, nodes) ==
  IF child.threw THEN child
  ELSE perftUnmade(unmakeMove(child.pos, Head(list)), child, list, depth, nodes)

perftMade(made, list, depth, nodes) ==
  IF made.result = "throw" THEN counted(made.pos, nodes, TRUE)
  ELSE IF made.result = "false" THEN perftLoop(made.pos, Tail(list), depth, nodes)
  ELSE perftChild(perft(made.pos, depth - 1), list, depth, nodes)

\* the loop has run over the first half of list: it goes on over the rest
perftRest(first, list, depth) ==
  IF first.threw THEN first ELSE perftLoop(first.pos, list, depth, first.nodes)

\* the loop over list, as the loop over its first half and then its second
perftLoop(pos, list, depth, nodes) ==
  IF list = <<>> THEN counted(pos, nodes, FALSE)
  ELSE IF Len(list) = 1
  THEN perftMade(makeMove(pos, Head(list)), list, depth, nodes)
  ELSE perftRest(perftLoop(pos, SubSeq(list, 1, Len(list) \div 2), depth, nodes),
                 SubSeq(list, Len(list) \div 2 + 1, Len(list)), depth)

perft(pos, depth) ==
  IF depth = 0 THEN counted(pos, 1, FALSE)
  ELSE perftLoop(pos, generateMoves(pos), depth, 0)

(***************************************************************************)
(* The program as a state machine: one Position object, used through       *)
(* makeMove, unmakeMove, Engine.move and getGameState                       *)
(***************************************************************************)
VARIABLES position, moves, last, netMakes, globalTT, search, now
vars == <<position, moves, last, netMakes, globalTT, search, now>>

\* the frame of searchPosition: where it is (pc), its arguments (timeLimit is
\* <<>> when not given) and its locals; for the record, the Position it was
\* called on (called) and what its negamax calls put on record
noStats == [nodes |-> 0, qnodes |-> 0, depth |-> 0, time |-> 0, bestMove |-> -1,
            score |-> 0]

notSearching ==
  [pc |-> "idle", maxDepth |-> 0, timeLimit |-> <<>>, startTime |-> 0,
   stats |-> noStats, legalMoves |-> <<>>, bestMove |-> -1, bestScore |-> 0,
   depth |-> 0, elapsed |-> 0, threw |-> FALSE, called |-> <<>>,
   ordered |-> {}, scored |-> {}, followed |-> {}]

\* the positions the Position is set up from, as FEN strings
Layouts ==
  <<
    \* "8/8/8/4k3/8/8/4P3/4K3 w - - 0 1": king and pawn against king
    <<"8", "/", "8", "/", "8", "/", "4", "k", "3", "/", "8", "/", "8", "/",
      "4", "P", "3", "/", "4", "K", "3", " ", "w", " ", "-", " ", "-", " ",
      "0", " ", "1">>,
    \* "r3k3/1P6/8/8/8/8/P7/K6R w - - 0 1": a white pawn on b7 that may promote, White not in check
    <<"r", "3", "k", "3", "/", "1", "P", "6", "/", "8", "/", "8", "/", "8",
      "/", "8", "/", "P", "7", "/", "K", "6", "R", " ", "w", " ", "-", " ",
      "-", " ", "0", " ", "1">>,
    \* "r3k3/1P6/8/8/8/8/2n5/K7 w - - 0 1": the same pawn with White in check from a knight
    <<"r", "3", "k", "3", "/", "1", "P", "6", "/", "8", "/", "8", "/", "8",
      "/", "8", "/", "2", "n", "5", "/", "K", "7", " ", "w", " ", "-", " ",
      "-", " ", "0", " ", "1">>,
    \* "4k3/8/8/8/8/2p3p1/8/R3K2R b KQ - 0 1": White may castle on either side unless a black pawn advances
    <<"4", "k", "3", "/", "8", "/", "8", "/", "8", "/", "8", "/", "2", "p",
      "3", "p", "1", "/", "8", "/", "R", "3", "K", "2", "R", " ", "b", " ",
      "K", "Q", " ", "-", " ", "0", " ", "1">>,
    \* "8/7p/8/8/4k3/8/r7/7K w - - 0 1": a black rook commanding the second rank, h7 occupied
    <<"8", "/", "7", "p", "/", "8", "/", "8", "/", "4", "k", "3", "/", "8",
      "/", "r", "7", "/", "7", "K", " ", "w", " ", "-", " ", "-", " ", "0",
      " ", "1">>,
    \* "8/7p/8/8/8/6k1/8/r6K w - - 0 1": the white king mated on the first rank, h7 occupied
    <<"8", "/", "7", "p", "/", "8", "/", "8", "/", "8", "/", "6", "k", "1",
      "/", "8", "/", "r", "6", "K", " ", "w", " ", "-", " ", "-", " ", "0",
      " ", "1">>,
    \* "r6K/1P6/8/8/8/2k5/8/8 w - - 0 1": the white king on h8 in check, the b7 pawn may interpose
    <<"r", "6", "K", "/", "1", "P", "6", "/", "8", "/", "8", "/", "8", "/",
      "2", "k", "5", "/", "8", "/", "8", " ", "w", " ", "-", " ", "-", " ",
      "0", " ", "1">>
  >>

\* the strings handed to Engine.move: malformed ones, well-formed ones that
\* name no generated move, and coordinate strings of generated moves
UCIInputs ==
  {<<"e", "2">>, <<"e", "1", "e", "9">>, <<"a", "1", "h", "8">>,
   <<"b", "7", "b", "8">>, <<"b", "7", "b", "8", "q">>, <<"b", "7", "b", "8", "k">>,
   <<"a", "8", "h", "8", "q">>, <<"e", "1", "g", "1">>, <<"e", "2", "e", "4">>,
   <<"e", "1", "c", "1">>, <<"a", "1", "b", "1">>, <<"h", "1", "h", "2">>,
   <<"h", "1", "g", "1">>}

\* what the caller saw of the operation just performed
report(op, result, before, move) ==
  [op |-> op, result |-> result, before |-> before, move |-> move,
   winner |-> "null", inCheck |-> FALSE, legal |-> FALSE, immediate |-> FALSE]

Running == last.result # "throw"

Init ==
  \E n \in 1..Len(Layouts) :
    /\ fromFEN(Layouts[n]).ok
    /\ position = fromFEN(Layouts[n]).pos
    /\ moves = <<>>
    /\ last = report("fromFEN", "ok", fromFEN(Layouts[n]).pos, -1)
    /\ netMakes = 0
    /\ globalTT = newTranspositionTable(TTSizeMB)
    /\ search = notSearching
    /\ now = 0

\* makeMove(position, move) returned `made`; the caller keeps the moves it
\* made, with the Position each was made from
Made(op, move, made, legal) ==
  /\ position' = made.pos
  /\ moves' = IF made.result = "true"
              THEN Append(moves, [move |-> move, before |-> position]) ELSE moves
  /\ netMakes' = IF made.result = "true" THEN netMakes + 1 ELSE netMakes
  /\ UNCHANGED <<globalTT, search, now>>
  /\ last' = [report(op, made.result, position,
                     IF \/ made.result = "true"
                        \/ getMoveFlags(move) \in {KING_CASTLE, QUEEN_CASTLE}
                     THEN move ELSE -1)
              EXCEPT !.legal = legal]

MakeMoveAmong(generated) ==
  \E n \in 1..Len(generated) :
    Made("makeMove", generated[n], makeMove(position, generated[n]), FALSE)

MakeMove ==
  /\ Running
  /\ Len(moves) < MaxPly
  /\ MakeMoveAmong(generateMoves(position))

Unmade(top, unmade) ==
  /\ position' = unmade.pos
  /\ moves' = SubSeq(moves, 1, Len(moves) - 1)
  /\ netMakes' = netMakes - 1
  /\ last' = [report("unmakeMove", IF unmade.threw THEN "throw" ELSE "ok",
                     top.before, top.move)
              EXCEPT !.immediate = last.result = "true"]
  /\ UNCHANGED <<globalTT, search, now>>

UnmakeMove ==
  /\ Running
  /\ moves # <<>>
  /\ Unmade(moves[Len(moves)], unmakeMove(position, moves[Len(moves)].move))

\* `legal` records, for the caller's report only, whether uci is the
\* coordinate string of a move that generateLegalMoves returns here
EngineMoveAmong(generated, strings, legalStrings) ==
  \E uci \in UCIInputs :
    Made("move", matched(uci, generated, strings),
         Engine_move(position, uci, generated, strings),
         \E n \in 1..Len(legalStrings) : legalStrings[n] = uci)

EngineMoveOn(generated) ==
  EngineMoveAmong(generated, uciStrings(generated),
                  uciStrings(generateLegalMoves(position).legal))

EngineMove ==
  /\ Running
  /\ Len(moves) < MaxPly
  /\ EngineMoveOn(generateMoves(position))

Reported(state) ==
  /\ position' = state.pos
  /\ last' = [report("getGameState", state.status, position, -1)
              EXCEPT !.winner = state.winner, !.inCheck = state.inCheck]
  /\ UNCHANGED <<moves, netMakes, globalTT, search, now>>

GetGameState ==
  /\ Running
  /\ Reported(getGameState(position))

Next == MakeMove \/ UnmakeMove \/ EngineMove \/ GetGameState

Spec == Init /\ [][Next]_vars

(***************************************************************************)
(* A game line: moves played through Engine.move, with getGameState asked  *)
(* after any of them.  The kings shuttle between neighbouring squares.     *)
(***************************************************************************)
\* the positions a game line starts from
LineLayouts ==
  <<
    \* "8/8/8/4k3/8/8/8/4K3 w - - 0 1": bare kings, fresh clocks
    <<"8", "/", "8", "/", "8", "/", "4", "k", "3", "/", "8", "/", "8", "/",
      "8", "/", "4", "K", "3", " ", "w", " ", "-", " ", "-", " ", "0", " ",
      "1">>,
    \* "8/8/8/4k3/8/8/8/4K3 w - - 90 50": bare kings, ten plies short of the fifty-move limit
    <<"8", "/", "8", "/", "8", "/", "4", "k", "3", "/", "8", "/", "8", "/",
      "8", "/", "4", "K", "3", " ", "w", " ", "-", " ", "-", " ", "9", "0",
      " ", "5", "0">>,
    \* "8/8/8/4k3/8/8/4P3/4K3 w - - 0 1": king and pawn against king
    <<"8", "/", "8", "/", "8", "/", "4", "k", "3", "/", "8", "/", "8", "/",
      "4", "P", "3", "/", "4", "K", "3", " ", "w", " ", "-", " ", "-", " ",
      "0", " ", "1">>,
    \* "8/8/8/8/8/2k5/1q6/K7 w - - 100 60": White mated, clock at the limit
    <<"8", "/", "8", "/", "8", "/", "8", "/", "8", "/", "2", "k", "5", "/",
      "1", "q", "6", "/", "K", "7", " ", "w", " ", "-", " ", "-", " ", "1",
      "0", "0", " ", "6", "0">>,
    \* "8/8/8/8/8/1q6/2k5/K7 w - - 100 60": White stalemated, clock at the limit
    <<"8", "/", "8", "/", "8", "/", "8", "/", "8", "/", "1", "q", "6", "/",
      "2", "k", "5", "/", "K", "7", " ", "w", " ", "-", " ", "-", " ", "1",
      "0", "0", " ", "6", "0">>,
    \* "8/8/8/8/8/2k5/1q6/K7 w - - 7 60": White mated, clock below the limit
    <<"8", "/", "8", "/", "8", "/", "8", "/", "8", "/", "2", "k", "5", "/",
      "1", "q", "6", "/", "K", "7", " ", "w", " ", "-", " ", "-", " ", "7",
      " ", "6", "0">>
  >>

LineUCI ==
  {<<"e", "1", "d", "1">>, <<"d", "1", "e", "1">>, <<"e", "1", "f", "1">>,
   <<"f", "1", "e", "1">>, <<"e", "5", "d", "5">>, <<"d", "5", "e", "5">>}

LineInit ==
  \E n \in 1..Len(LineLayouts) :
    /\ fromFEN(LineLayouts[n]).ok
    /\ position = fromFEN(LineLayouts[n]).pos
    /\ moves = <<>>
    /\ last = report("fromFEN", "ok", fromFEN(LineLayouts[n]).pos, -1)
    /\ netMakes = 0
    /\ globalTT = newTranspositionTable(TTSizeMB)
    /\ search = notSearching
    /\ now = 0

LineMoveAmong(generated, strings, legalStrings) ==
  \E uci \in LineUCI :
    /\ matched(uci, generated, strings) # -1
    /\ Made("move", matched(uci, generated, strings),
            Engine_move(position, uci, generated, strings),
            \E n \in 1..Len(legalStrings) : legalStrings[n] = uci)

LineMoveOn(generated) ==
  LineMoveAmong(generated, uciStrings(generated),
                uciStrings(generateLegalMoves(position).legal))

LineMove ==
  /\ Running
  /\ Len(moves) < MaxLine
  /\ LineMoveOn(generateMoves(position))

LineNext == LineMove \/ GetGameState

LineSpec == LineInit /\ [][LineNext]_vars

(***************************************************************************)
(* isInsufficientMaterial applied to boards set up with addPiece: the two   *)
(* kings and any piece but a king, or none, on each of a few squares        *)
(***************************************************************************)
\* c3 (dark), d3 (light) and c6 (light)
MaterialSquares == <<18, 19, 42>>

MaterialPieces == {-1} \cup (0..4) \cup (6..10)

RECURSIVE placed(_, _, _)
placed(pos, pieces, n) ==
  IF n > Len(MaterialSquares) THEN pos
  ELSE placed(IF pieces[n] = -1 THEN pos
              ELSE addPiece(pos, pieces[n], MaterialSquares[n]),
              pieces, n + 1)

MaterialInit ==
  \E pieces \in [1..Len(MaterialSquares) -> MaterialPieces] :
    /\ position = placed(addPiece(addPiece(newPosition, 5, 4), 11, 60), pieces, 1)
    /\ moves = <<>>
    /\ last = report("new Position", "ok", newPosition, -1)
    /\ netMakes = 0
    /\ globalTT = newTranspositionTable(TTSizeMB)
    /\ search = notSearching
    /\ now = 0

IsInsufficientMaterial ==
  /\ last' = report("isInsufficientMaterial",
                    IF isInsufficientMaterial(position) THEN "true" ELSE "false",
                    position, -1)
  /\ UNCHANGED <<position, moves, netMakes, globalTT, search, now>>

MaterialNext == IsInsufficientMaterial

MaterialSpec == MaterialInit /\ [][MaterialNext]_vars

(***************************************************************************)
(* The global transposition table under store, probe, incrementAge and     *)
(* clear                                                                    *)
(***************************************************************************)
\* 5n and 2^21 + 5 share slot 5 of the 2^21 slots; 6n has slot 6
TTHashes == {{0, 2}, {0, 2, 21}, {1, 2}}

\* score, type (EXACT = 0, LOWER = 1) and bestMove (null is -1)
TTPayloads == {<<50, 0, 796>>, <<-50, 1, -1>>}

called(op, zobristHash, depth, payload, result) ==
  [op |-> op, zobristHash |-> zobristHash, depth |-> depth,
   score |-> payload[1], type |-> payload[2], bestMove |-> payload[3],
   result |-> result, before |-> globalTT]

TableInit ==
  /\ position = newPosition
  /\ moves = <<>>
  /\ netMakes = 0
  /\ globalTT = newTranspositionTable(TTSizeMB)
  /\ search = notSearching
  /\ now = 0
  /\ last = called("new TranspositionTable", {}, 0, <<0, 0, -1>>, <<>>)

Store ==
  \E zobristHash \in TTHashes, depth \in 1..TTMaxDepth, payload \in TTPayloads :
    /\ globalTT' = store(globalTT, zobristHash, depth,
                         payload[1], payload[2], payload[3])
    /\ last' = called("store", zobristHash, depth, payload, <<>>)
    /\ UNCHANGED <<position, moves, netMakes, search, now>>

Probe ==
  \E zobristHash \in TTHashes :
    /\ last' = called("probe", zobristHash, 0, <<0, 0, -1>>,
                      probe(globalTT, zobristHash))
    /\ UNCHANGED <<position, moves, netMakes, globalTT, search, now>>

IncrementAge ==
  /\ globalTT.age < MaxAge
  /\ globalTT' = incrementAge(globalTT)
  /\ last' = called("incrementAge", {}, 0, <<0, 0, -1>>, <<>>)
  /\ UNCHANGED <<position, moves, netMakes, search, now>>

Clear ==
  /\ globalTT' = clear(globalTT)
  /\ last' = called("clear", {}, 0, <<0, 0, -1>>, <<>>)
  /\ UNCHANGED <<position, moves, netMakes, search, now>>

TableNext == Store \/ Probe \/ IncrementAge \/ Clear

TableSpec == TableInit /\ [][TableNext]_vars

(***************************************************************************)
(* Position.fromFEN and Position.toFEN applied to layout strings           *)
(***************************************************************************)
\* the castling fields in normalized form: "-" or the letters in KQkq order
Castlings ==
  {IF S = {} THEN <<"-">>
   ELSE SelectSeq(<<"K", "Q", "k", "q">>, LAMBDA c : c \in S) :
     S \in SUBSET {"K", "Q", "k", "q"}}

\* halfmove clock and fullmove number
FenClocks == {<<<<"0">>, <<"1">>>>, <<<<"7">>, <<"1", "2">>>>, <<<<"9", "9">>, <<"1", "5", "0">>>>}

FenBoards ==
  <<
    \* "rnbqkbnr/pppppppp/8/8/8/8/PPPPPPPP/RNBQKBNR": the starting position
    [placement |->
       <<"r", "n", "b", "q", "k", "b", "n", "r", "/", "p", "p", "p", "p",
         "p", "p", "p", "p", "/", "8", "/", "8", "/", "8", "/", "8", "/",
         "P", "P", "P", "P", "P", "P", "P", "P", "/", "R", "N", "B", "Q",
         "K", "B", "N", "R">>,
     sides |-> {<<"w">>, <<"b">>}, castlings |-> Castlings,
     enPassants |-> {<<"-">>}, clocks |-> FenClocks],
    \* "rnbqkbnr/pppppppp/8/8/4P3/8/PPPP1PPP/RNBQKBNR": after 1. e4
    [placement |->
       <<"r", "n", "b", "q", "k", "b", "n", "r", "/", "p", "p", "p", "p",
         "p", "p", "p", "p", "/", "8", "/", "8", "/", "4", "P", "3", "/",
         "8", "/", "P", "P", "P", "P", "1", "P", "P", "P", "/", "R", "N",
         "B", "Q", "K", "B", "N", "R">>,
     sides |-> {<<"b">>}, castlings |-> Castlings,
     enPassants |-> {<<"e", "3">>}, clocks |-> {<<<<"0">>, <<"1">>>>}],
    \* "rnbqkbnr/pp1ppppp/8/2p5/4P3/8/PPPP1PPP/RNBQKBNR": after 1. e4 c5
    [placement |->
       <<"r", "n", "b", "q", "k", "b", "n", "r", "/", "p", "p", "1", "p",
         "p", "p", "p", "p", "/", "8", "/", "2", "p", "5", "/", "4", "P",
         "3", "/", "8", "/", "P", "P", "P", "P", "1", "P", "P", "P", "/",
         "R", "N", "B", "Q", "K", "B", "N", "R">>,
     sides |-> {<<"w">>}, castlings |-> Castlings,
     enPassants |-> {<<"c", "6">>}, clocks |-> {<<<<"0">>, <<"2">>>>}],
    \* "8/8/8/4k3/8/8/4P3/4K3": king and pawn against king
    [placement |->
       <<"8", "/", "8", "/", "8", "/", "4", "k", "3", "/", "8", "/", "8",
         "/", "4", "P", "3", "/", "4", "K", "3">>,
     sides |-> {<<"w">>, <<"b">>}, castlings |-> {<<"-">>},
     enPassants |-> {<<"-">>}, clocks |-> FenClocks],
    \* "r3k2r/7p/8/8/8/8/P7/R3K2R": kings and rooks at home
    [placement |->
       <<"r", "3", "k", "2", "r", "/", "7", "p", "/", "8", "/", "8", "/",
         "8", "/", "8", "/", "P", "7", "/", "R", "3", "K", "2", "R">>,
     sides |-> {<<"w">>, <<"b">>}, castlings |-> Castlings,
     enPassants |-> {<<"-">>}, clocks |-> FenClocks]
  >>

RECURSIVE fields(_)
fields(list) == IF Len(list) = 1 THEN list[1]
                ELSE list[1] \o <<" ">> \o fields(Tail(list))

\* the valid layouts in normalized form, six fields each
SixFieldLayouts ==
  UNION {{fields(<<FenBoards[n].placement, side, castling, enPassant,
                   clocks[1], clocks[2]>>) :
            side \in FenBoards[n].sides, castling \in FenBoards[n].castlings,
            enPassant \in FenBoards[n].enPassants \cup {<<"-">>},
            clocks \in FenBoards[n].clocks} :
         n \in 1..Len(FenBoards)}

\* the same layouts with fields 5 and 6 left out
FourFieldLayouts ==
  UNION {{fields(<<FenBoards[n].placement, side, castling, enPassant>>) :
            side \in FenBoards[n].sides, castling \in FenBoards[n].castlings,
            enPassant \in FenBoards[n].enPassants \cup {<<"-">>}} :
         n \in 1..Len(FenBoards)}

\* layouts whose piece placement is not eight ranks of eight files
MalformedLayouts ==
  {
    \* "8/8/8/4k3/8/8/4K3 w - - 0 1": seven ranks
    <<"8", "/", "8", "/", "8", "/", "4", "k", "3", "/", "8", "/", "8", "/",
      "4", "K", "3", " ", "w", " ", "-", " ", "-", " ", "0", " ", "1">>,
    \* "8/8/8/8/4k3/8/8/8/4K3 w - - 0 1": nine ranks
    <<"8", "/", "8", "/", "8", "/", "8", "/", "4", "k", "3", "/", "8", "/",
      "8", "/", "8", "/", "4", "K", "3", " ", "w", " ", "-", " ", "-", " ",
      "0", " ", "1">>,
    \* "4k3/8/8/8/8/8/8/4K2 w - - 0 1": a first rank of seven files
    <<"4", "k", "3", "/", "8", "/", "8", "/", "8", "/", "8", "/", "8", "/",
      "8", "/", "4", "K", "2", " ", "w", " ", "-", " ", "-", " ", "0", " ",
      "1">>,
    \* "4k3/8/8/8/8/8/8/4K4 w - - 0 1": a first rank of nine files
    <<"4", "k", "3", "/", "8", "/", "8", "/", "8", "/", "8", "/", "8", "/",
      "8", "/", "4", "K", "4", " ", "w", " ", "-", " ", "-", " ", "0", " ",
      "1">>,
    \* "4k3/8/8/8/8/8/3x4/4K3 w - - 0 1": an unknown piece letter
    <<"4", "k", "3", "/", "8", "/", "8", "/", "8", "/", "8", "/", "8", "/",
      "3", "x", "4", "/", "4", "K", "3", " ", "w", " ", "-", " ", "-", " ",
      "0", " ", "1">>,
    \* "4k3/8/8/8/8/8/PPPPPPPPP/4K3 w - - 0 1": nine pawns on a rank
    <<"4", "k", "3", "/", "8", "/", "8", "/", "8", "/", "8", "/", "8", "/",
      "P", "P", "P", "P", "P", "P", "P", "P", "P", "/", "4", "K", "3", " ",
      "w", " ", "-", " ", "-", " ", "0", " ", "1">>
  }

parsed(op, fen, result, text) ==
  [op |-> op, fen |-> fen, result |-> result, text |-> text]

FenInit ==
  \E fen \in SixFieldLayouts \cup FourFieldLayouts \cup MalformedLayouts :
    /\ position = newPosition
    /\ moves = <<>>
    /\ netMakes = 0
    /\ globalTT = newTranspositionTable(TTSizeMB)
    /\ search = notSearching
    /\ now = 0
    /\ last = parsed("input", fen, "none", <<>>)

FromFEN ==
  /\ last.op = "input"
  /\ position' = IF fromFEN(last.fen).ok THEN fromFEN(last.fen).pos ELSE position
  /\ last' = parsed("fromFEN", last.fen,
                    IF fromFEN(last.fen).ok THEN "ok" ELSE "throw", <<>>)
  /\ UNCHANGED <<moves, netMakes, globalTT, search, now>>

ToFEN ==
  /\ last.op = "fromFEN"
  /\ last.result = "ok"
  /\ last' = parsed("toFEN", last.fen, "ok", toFEN(position))
  /\ UNCHANGED <<position, moves, netMakes, globalTT, search, now>>

FenNext == FromFEN \/ ToFEN

FenSpec == FenInit /\ [][FenNext]_vars

(***************************************************************************)
(* searchPosition(position, maxDepth, timeLimit) on the global              *)
(* transposition table, one step per iterative-deepening depth.  `now` is   *)
(* Date.now(): it never runs backwards and may advance during any step.     *)
(***************************************************************************)
SearchLayouts ==
  <<
    \* "8/8/8/4k3/8/8/4P3/4K3 w - - 0 1": six legal moves, none a capture
    <<"8", "/", "8", "/", "8", "/", "4", "k", "3", "/", "8", "/", "8", "/",
      "4", "P", "3", "/", "4", "K", "3", " ", "w", " ", "-", " ", "-", " ",
      "0", " ", "1">>,
    \* "8/8/4k3/3p4/4P3/8/8/4K3 w - - 0 1": seven legal moves, one a capture
    <<"8", "/", "8", "/", "4", "k", "3", "/", "3", "p", "4", "/", "4", "P",
      "3", "/", "8", "/", "8", "/", "4", "K", "3", " ", "w", " ", "-", " ",
      "-", " ", "0", " ", "1">>,
    \* "8/8/8/4k3/8/1r6/8/K7 w - - 0 1": one legal move, a1a2
    <<"8", "/", "8", "/", "8", "/", "4", "k", "3", "/", "8", "/", "1", "r",
      "6", "/", "8", "/", "K", "7", " ", "w", " ", "-", " ", "-", " ", "0",
      " ", "1">>,
    \* "8/8/8/8/8/2k5/1q6/K7 w - - 0 1": White mated, no legal move
    <<"8", "/", "8", "/", "8", "/", "8", "/", "8", "/", "2", "k", "5", "/",
      "1", "q", "6", "/", "K", "7", " ", "w", " ", "-", " ", "-", " ", "0",
      " ", "1">>,
    \* "8/8/8/8/8/1q6/2k5/K7 w - - 0 1": White stalemated, no legal move
    <<"8", "/", "8", "/", "8", "/", "8", "/", "8", "/", "1", "q", "6", "/",
      "2", "k", "5", "/", "K", "7", " ", "w", " ", "-", " ", "-", " ", "0",
      " ", "1">>
  >>

\* the budgets a caller passes: none, a deadline already past, zero, 1 ms
SearchBudgets == {<<>>, <<-1>>, <<0>>, <<1>>}

SearchInit ==
  \E n \in 1..Len(SearchLayouts) :
    /\ fromFEN(SearchLayouts[n]).ok
    /\ position = fromFEN(SearchLayouts[n]).pos
    /\ moves = <<>>
    /\ last = report("fromFEN", "ok", fromFEN(SearchLayouts[n]).pos, -1)
    /\ netMakes = 0
    /\ globalTT = newTranspositionTable(TTSizeMB)
    /\ search = notSearching
    /\ now = 0

\* the call up to the loop: generateLegalMoves returned `generated`
SearchEntered(maxDepth, timeLimit, generated) ==
  /\ position' = generated.pos
  /\ globalTT' = incrementAge(globalTT)
  /\ last' = report("searchPosition", "called", position, -1)
  /\ UNCHANGED <<moves, netMakes>>
  /\ IF generated.threw
     THEN /\ search' = [notSearching EXCEPT !.pc = "done", !.threw = TRUE,
                          !.maxDepth = maxDepth, !.called = <<position>>,
                          !.timeLimit = timeLimit, !.startTime = now]
          /\ now' = now
     ELSE IF Len(generated.legal) = 0
     THEN /\ search' = [notSearching EXCEPT !.pc = "done", !.maxDepth = maxDepth,
                          !.called = <<position>>, !.timeLimit = timeLimit,
                          !.startTime = now]
          /\ now' = now
     ELSE IF Len(generated.legal) = 1
     THEN \E t \in now..MaxClock :
            /\ now' = t
            /\ search' = [notSearching EXCEPT
                            !.pc = "done", !.maxDepth = maxDepth,
                            !.called = <<position>>, !.timeLimit = timeLimit,
                            !.startTime = now,
                            !.legalMoves = generated.legal,
                            !.stats = [noStats EXCEPT
                                         !.bestMove = generated.legal[1],
                                         !.score = 0, !.time = t - now]]
     ELSE /\ search' = [notSearching EXCEPT
                          !.pc = "loop", !.maxDepth = maxDepth,
                          !.called = <<position>>, !.timeLimit = timeLimit,
                          !.startTime = now,
                          !.legalMoves = generated.legal,
                          !.bestMove = generated.legal[1],
                          !.bestScore = -INFINITY, !.depth = 1]
          /\ now' = now

SearchPosition ==
  /\ search.pc = "idle"
  /\ \E maxDepth \in 0..MaxSearchDepth, timeLimit \in SearchBudgets :
       SearchEntered(maxDepth, timeLimit, generateLegalMoves(position))

\* one pass of the iterative-deepening loop has left `root`; the clock is
\* read for the time check
SearchDeepened(root) ==
  /\ position' = root.ctx.pos
  /\ globalTT' = root.ctx.tt
  /\ last' = report("searchPosition", "depth", position, -1)
  /\ UNCHANGED <<moves, netMakes>>
  /\ IF root.ctx.threw
     THEN /\ search' = [search EXCEPT
                          !.pc = "done", !.threw = TRUE,
                          !.ordered = root.ctx.ordered,
                          !.scored = root.ctx.scored,
                          !.followed = root.ctx.followed,
                          !.stats = [@ EXCEPT !.depth = search.depth,
                                              !.nodes = root.ctx.nodes,
                                              !.qnodes = root.ctx.qnodes]]
          /\ now' = now
     ELSE \E t \in now..MaxClock :
            /\ now' = t
            /\ search' = [search EXCEPT
                            !.pc = IF given(search.timeLimit)
                                      /\ t - search.startTime >= search.timeLimit[1]
                                   THEN "break" ELSE "loop",
                            !.depth = IF given(search.timeLimit)
                                         /\ t - search.startTime >= search.timeLimit[1]
                                      THEN @ ELSE @ + 1,
                            !.elapsed = t - search.startTime,
                            !.bestMove = root.bestMove,
                            !.bestScore = root.bestScore,
                            !.ordered = root.ctx.ordered,
                            !.scored = root.ctx.scored,
                            !.followed = root.ctx.followed,
                            !.stats = [@ EXCEPT !.depth = search.depth,
                                                !.nodes = root.ctx.nodes,
                                                !.qnodes = root.ctx.qnodes,
                                                !.bestMove = root.bestMove,
                                                !.score = root.bestScore]]

SearchDepth ==
  /\ search.pc = "loop"
  /\ search.depth <= search.maxDepth
  /\ SearchDeepened(searchLoop([pos |-> position, tt |-> globalTT,
                                nodes |-> search.stats.nodes,
                                qnodes |-> search.stats.qnodes, threw |-> FALSE,
                                ordered |-> search.ordered,
                                scored |-> search.scored,
                                followed |-> search.followed],
                               search.legalMoves, search.depth, -INFINITY,
                               search.bestMove, search.bestScore))

\* the loop is left, by its condition or by the break
SearchReturn ==
  /\ \/ search.pc = "break"
     \/ search.pc = "loop" /\ search.depth > search.maxDepth
  /\ \E t \in now..MaxClock :
       /\ now' = t
       /\ search' = [search EXCEPT !.pc = "done",
                                   !.stats = [@ EXCEPT !.time = t - search.startTime]]
  /\ last' = report("searchPosition", "returned", position, -1)
  /\ UNCHANGED <<position, moves, netMakes, globalTT>>

SearchNext == SearchPosition \/ SearchDepth \/ SearchReturn

SearchSpec == SearchInit /\ [][SearchNext]_vars

(***************************************************************************)
(* makeMove's field updates: the operations of Spec on layouts with         *)
(* castling rights to lose and pawns to push two squares                    *)
(***************************************************************************)
UpdateLayouts ==
  <<
    \* "r3k2r/8/8/8/8/8/8/R3K2R w KQkq - 3 1": all four rights held, White to move
    <<"r", "3", "k", "2", "r", "/", "8", "/", "8", "/", "8", "/", "8", "/",
      "8", "/", "8", "/", "R", "3", "K", "2", "R", " ", "w", " ", "K", "Q",
      "k", "q", " ", "-", " ", "3", " ", "1">>,
    \* "r3k2r/8/8/8/8/8/8/R3K2R b KQkq - 3 1": all four rights held, Black to move
    <<"r", "3", "k", "2", "r", "/", "8", "/", "8", "/", "8", "/", "8", "/",
      "8", "/", "8", "/", "R", "3", "K", "2", "R", " ", "b", " ", "K", "Q",
      "k", "q", " ", "-", " ", "3", " ", "1">>,
    \* "8/2p1k3/8/3P4/4p3/8/5P2/4K3 w - - 5 10": pawns that may push two squares or be taken in passing, White to move
    <<"8", "/", "2", "p", "1", "k", "3", "/", "8", "/", "3", "P", "4", "/",
      "4", "p", "3", "/", "8", "/", "5", "P", "2", "/", "4", "K", "3", " ",
      "w", " ", "-", " ", "-", " ", "5", " ", "1", "0">>,
    \* "8/2p1k3/8/3P4/4p3/8/5P2/4K3 b - - 5 10": the same, Black to move
    <<"8", "/", "2", "p", "1", "k", "3", "/", "8", "/", "3", "P", "4", "/",
      "4", "p", "3", "/", "8", "/", "5", "P", "2", "/", "4", "K", "3", " ",
      "b", " ", "-", " ", "-", " ", "5", " ", "1", "0">>
  >>

UpdateInit ==
  \E n \in 1..Len(UpdateLayouts) :
    /\ fromFEN(UpdateLayouts[n]).ok
    /\ position = fromFEN(UpdateLayouts[n]).pos
    /\ moves = <<>>
    /\ last = report("fromFEN", "ok", fromFEN(UpdateLayouts[n]).pos, -1)
    /\ netMakes = 0
    /\ globalTT = newTranspositionTable(TTSizeMB)
    /\ search = notSearching
    /\ now = 0

UpdateSpec == UpdateInit /\ [][Next]_vars

(***************************************************************************)
(* getRookAttacks and getBishopAttacks applied to a square and a            *)
(* full-board occupancy                                                     *)
(***************************************************************************)
\* a1, g1, h1, d4, e5, a8
SlideSquares == {0, 6, 7, 27, 36, 56}

\* the occupancies: any of b1, c1, d3, f6, g7, h7, c8 occupied
SlideOccupancies == SUBSET {1, 2, 19, 45, 54, 55, 58}

looked(op, square, occupancy, result) ==
  [op |-> op, square |-> square, occupancy |-> occupancy, result |-> result]

SlideInit ==
  /\ position = newPosition
  /\ moves = <<>>
  /\ \E square \in SlideSquares, occupancy \in SlideOccupancies :
       last = looked("input", square, occupancy, {})
  /\ netMakes = 0
  /\ globalTT = newTranspositionTable(TTSizeMB)
  /\ search = notSearching
  /\ now = 0

GetRookAttacks ==
  /\ last' = looked("getRookAttacks", last.square, last.occupancy,
                    getRookAttacks(last.square, last.occupancy))
  /\ UNCHANGED <<position, moves, netMakes, globalTT, search, now>>

GetBishopAttacks ==
  /\ last' = looked("getBishopAttacks", last.square, last.occupancy,
                    getBishopAttacks(last.square, last.occupancy))
  /\ UNCHANGED <<position, moves, netMakes, globalTT, search, now>>

SlideNext == GetRookAttacks \/ GetBishopAttacks

SlideSpec == SlideInit /\ [][SlideNext]_vars

(***************************************************************************)
(* perft called on the starting layout and on the positions that makeMove   *)
(* leads to from it, to the depth that remains                              *)
(***************************************************************************)
PerftLayouts ==
  <<
    \* "rnbqkbnr/pppppppp/8/8/8/8/PPPPPPPP/RNBQKBNR w KQkq - 0 1": the standard starting layout
    <<"r", "n", "b", "q", "k", "b", "n", "r", "/", "p", "p", "p", "p", "p",
      "p", "p", "p", "/", "8", "/", "8", "/", "8", "/", "8", "/", "P", "P",
      "P", "P", "P", "P", "P", "P", "/", "R", "N", "B", "Q", "K", "B", "N",
      "R", " ", "w", " ", "K", "Q", "k", "q", " ", "-", " ", "0", " ", "1">>,
    \* "8/8/8/4k3/8/8/4P3/4K3 w - - 0 1": king and pawn against king
    <<"8", "/", "8", "/", "8", "/", "4", "k", "3", "/", "8", "/", "8", "/",
      "4", "P", "3", "/", "4", "K", "3", " ", "w", " ", "-", " ", "-", " ",
      "0", " ", "1">>
  >>

PerftInit ==
  \E n \in 1..Len(PerftLayouts) :
    /\ fromFEN(PerftLayouts[n]).ok
    /\ position = fromFEN(PerftLayouts[n]).pos
    /\ moves = <<>>
    /\ last = report("fromFEN", "ok", fromFEN(PerftLayouts[n]).pos, -1)
    /\ netMakes = 0
    /\ globalTT = newTranspositionTable(TTSizeMB)
    /\ search = notSearching
    /\ now = 0

\* perft(position, depth) returned `result`
Perfted(depth, result) ==
  /\ position' = result.pos
  /\ last' = [op |-> "perft", result |-> IF result.threw THEN "throw" ELSE "ok",
              before |-> position, move |-> -1, depth |-> depth,
              nodes |-> result.nodes]
  /\ UNCHANGED <<moves, netMakes, globalTT, search, now>>

Perft ==
  /\ Running
  /\ \E depth \in 0..(MaxPerftDepth - Len(moves)) :
       Perfted(depth, perft(position, depth))

PerftNext == MakeMove \/ UnmakeMove \/ Perft

PerftSpec == PerftInit /\ [][PerftNext]_vars

(***************************************************************************)
(* Games one after the other in one process: each new Engine starts from a  *)
(* layout and getBestMove searches it on the transposition table that every *)
(* search of the process shares.  No time budget is given.                  *)
(***************************************************************************)
GameLayouts ==
  <<
    \* "8/8/8/k7/1p6/8/2N5/4K3 b - - 0 1": a knight that may capture a pawn or move quietly, Black to move
    <<"8", "/", "8", "/", "8", "/", "k", "7", "/", "1", "p", "6", "/", "8",
      "/", "2", "N", "5", "/", "4", "K", "3", " ", "b", " ", "-", " ", "-",
      " ", "0", " ", "1">>,
    \* "8/8/8/4k3/8/8/4P3/4K3 w - - 0 1": king and pawn against king
    <<"8", "/", "8", "/", "8", "/", "4", "k", "3", "/", "8", "/", "8", "/",
      "4", "P", "3", "/", "4", "K", "3", " ", "w", " ", "-", " ", "-", " ",
      "0", " ", "1">>,
    \* "8/8/8/4k3/8/8/4P3/4K3 w - - 99 60": the same placement one ply short of the fifty-move rule
    <<"8", "/", "8", "/", "8", "/", "4", "k", "3", "/", "8", "/", "8", "/",
      "4", "P", "3", "/", "4", "K", "3", " ", "w", " ", "-", " ", "-", " ",
      "9", "9", " ", "6", "0">>
  >>

\* the depth of a search: at most MaxGameDepth for the first search of the
\* process, at most MaxLaterDepth for a search after it
MaxGameDepth == 3
MaxLaterDepth == 1

GameInit ==
  \E n \in 1..Len(GameLayouts) :
    /\ fromFEN(GameLayouts[n]).ok
    /\ position = fromFEN(GameLayouts[n]).pos
    /\ moves = <<>>
    /\ last = report("fromFEN", "ok", fromFEN(GameLayouts[n]).pos, -1)
    /\ netMakes = 0
    /\ globalTT = newTranspositionTable(TTSizeMB)
    /\ search = notSearching
    /\ now = MaxClock

\* new Engine(fen): a Position of its own; the table is the module's
NewEngine ==
  /\ search.pc = "done"
  /\ globalTT.age < MaxAge
  /\ \E n \in 1..Len(GameLayouts) :
       /\ fromFEN(GameLayouts[n]).ok
       /\ position' = fromFEN(GameLayouts[n]).pos
       /\ last' = report("fromFEN", "ok", position, -1)
  /\ search' = notSearching
  /\ UNCHANGED <<moves, netMakes, globalTT, now>>

\* getBestMove(position, depth) is searchPosition(position, depth)
GetBestMove ==
  /\ search.pc = "idle"
  /\ \E depth \in 1..(IF globalTT.age = 0 THEN MaxGameDepth ELSE MaxLaterDepth) :
       SearchEntered(depth, <<>>, generateLegalMoves(position))

GameNext == NewEngine \/ GetBestMove \/ SearchDepth \/ SearchReturn

GameSpec == GameInit /\ [][GameNext]_vars

(***************************************************************************)
(* Two Positions of one process: the one in play, reached by makeMove and   *)
(* unmakeMove from a layout, and the one in play before Position.fromFEN    *)
(* made a new one, which last.before keeps                                  *)
(***************************************************************************)
TranspositionLayouts ==
  <<
    \* "8/8/8/4k3/8/8/4P3/4K3 w - - 0 1": king and pawn against king, White to move
    <<"8", "/", "8", "/", "8", "/", "4", "k", "3", "/", "8", "/", "8", "/",
      "4", "P", "3", "/", "4", "K", "3", " ", "w", " ", "-", " ", "-", " ",
      "0", " ", "1">>,
    \* "8/8/8/4k3/8/8/4P3/3K4 b - - 1 1": the same after e1d1, Black to move
    <<"8", "/", "8", "/", "8", "/", "4", "k", "3", "/", "8", "/", "8", "/",
      "4", "P", "3", "/", "3", "K", "4", " ", "b", " ", "-", " ", "-", " ",
      "1", " ", "1">>
  >>

TranspositionInit ==
  \E n \in 1..Len(TranspositionLayouts) :
    /\ fromFEN(TranspositionLayouts[n]).ok
    /\ position = fromFEN(TranspositionLayouts[n]).pos
    /\ moves = <<>>
    /\ last = report("fromFEN", "ok", fromFEN(TranspositionLayouts[n]).pos, -1)
    /\ netMakes = 0
    /\ globalTT = newTranspositionTable(TTSizeMB)
    /\ search = notSearching
    /\ now = 0

\* Position.fromFEN(fen): a new Position with a history of its own
NewPosition ==
  /\ Running
  /\ \E n \in 1..Len(TranspositionLayouts) :
       /\ fromFEN(TranspositionLayouts[n]).ok
       /\ position' = fromFEN(TranspositionLayouts[n]).pos
  /\ moves' = <<>>
  /\ netMakes' = 0
  /\ last' = report("fromFEN", "ok", position, -1)
  /\ UNCHANGED <<globalTT, search, now>>

TranspositionNext == MakeMove \/ UnmakeMove \/ NewPosition

TranspositionSpec == TranspositionInit /\ [][TranspositionNext]_vars

(***************************************************************************)
(* searchPosition run to its end: the steps of SearchSpec on layouts with   *)
(* captures to follow.  The caller is single-threaded and the loop runs     *)
(* without yielding, so a step that can be taken is taken.                  *)
(***************************************************************************)
TerminationLayouts ==
  <<
    \* "8/8/4k3/3p4/4P3/8/8/4K3 w - - 0 1": a pawn that may capture or be captured
    <<"8", "/", "8", "/", "4", "k", "3", "/", "3", "p", "4", "/", "4", "P",
      "3", "/", "8", "/", "8", "/", "4", "K", "3", " ", "w", " ", "-", " ",
      "-", " ", "0", " ", "1">>,
    \* "8/8/8/k7/1p6/8/2N5/4K3 b - - 0 1": a knight that may capture a pawn, Black to move
    <<"8", "/", "8", "/", "8", "/", "k", "7", "/", "1", "p", "6", "/", "8",
      "/", "2", "N", "5", "/", "4", "K", "3", " ", "b", " ", "-", " ", "-",
      " ", "0", " ", "1">>,
    \* "6N1/8/8/8/k7/8/6r1/2K5 w - - 0 1": a white knight on g8 on the file of a black rook
    <<"6", "N", "1", "/", "8", "/", "8", "/", "8", "/", "k", "7", "/", "8",
      "/", "6", "r", "1", "/", "2", "K", "5", " ", "w", " ", "-", " ", "-",
      " ", "0", " ", "1">>
  >>

TerminationInit ==
  \E n \in 1..Len(TerminationLayouts) :
    /\ fromFEN(TerminationLayouts[n]).ok
    /\ position = fromFEN(TerminationLayouts[n]).pos
    /\ moves = <<>>
    /\ last = report("fromFEN", "ok", fromFEN(TerminationLayouts[n]).pos, -1)
    /\ netMakes = 0
    /\ globalTT = newTranspositionTable(TTSizeMB)
    /\ search = notSearching
    /\ now = 0

TerminationSpec ==
  /\ TerminationInit
  /\ [][SearchNext]_vars
  /\ WF_vars(SearchDepth)
  /\ WF_vars(SearchReturn)

(***************************************************************************)
(* The rules of chess, from the geometry of the board alone: no lookup     *)
(* table and no bit scan                                                    *)
(***************************************************************************)
abs(n) == IF n < 0 THEN -n ELSE n
sign(n) == IF n < 0 THEN -1 ELSE IF n > 0 THEN 1 ELSE 0

occupied(pos) == UNION {pos.bitboards[p] : p \in 0..11}

\* the squares strictly between two squares on one line
between(a, b) ==
  LET n == Max({abs(rankOf(b) - rankOf(a)), abs(fileOf(b) - fileOf(a))})
  IN  {makeSquare(fileOf(a) + d * sign(fileOf(b) - fileOf(a)),
                  rankOf(a) + d * sign(rankOf(b) - rankOf(a))) : d \in 1..(n - 1)}

attackedBy(pos, square, byWhite) ==
  LET off == IF byWhite THEN 0 ELSE 6
      dr(a) == rankOf(square) - rankOf(a)
      df(a) == abs(fileOf(square) - fileOf(a))
      unblocked(a) == between(a, square) \cap occupied(pos) = {}
  IN  \/ \E a \in pos.bitboards[off] :
           df(a) = 1 /\ dr(a) = (IF byWhite THEN 1 ELSE -1)
      \/ \E a \in pos.bitboards[off + 1] : {abs(dr(a)), df(a)} = {1, 2}
      \/ \E a \in pos.bitboards[off + 5] : Max({abs(dr(a)), df(a)}) = 1
      \/ \E a \in pos.bitboards[off + 2] \cup pos.bitboards[off + 4] :
           a # square /\ abs(dr(a)) = df(a) /\ unblocked(a)
      \/ \E a \in pos.bitboards[off + 3] \cup pos.bitboards[off + 4] :
           a # square /\ (dr(a) = 0 \/ df(a) = 0) /\ unblocked(a)

\* some king of the given colour stands on an attacked square
kingAttacked(pos, white) ==
  \E k \in pos.bitboards[IF white THEN 5 ELSE 11] : attackedBy(pos, k, ~white)

hashOf(pos) ==
  computeZobristHash(pos.bitboards, pos.sideToMove, pos.castlingRights,
                     pos.enPassantSquare)

whiteMoved == position.sideToMove = "black"

(***************************************************************************)
(* The claims                                                              *)
(***************************************************************************)

\* C1: in every reachable position, one fresh from fromFEN included, the
\* stored zobristHash equals computeZobristHash of the position.
C1_HashIsRecomputed == Running => position.zobristHash = hashOf(position)

\* C2: a makeMove that returned true, immediately followed by unmakeMove of
\* the same move, leaves every field of the Position as it was before the
\* makeMove.
C2_UnmakeRestores ==
  (last.op = "unmakeMove" /\ last.immediate /\ last.result = "ok")
    => position = last.before

\* C3: a makeMove that returned false leaves every field of the Position
\* as it was before the call.
C3_RejectedUnchanged ==
  (last.op = "makeMove" /\ last.result = "false") => position = last.before

\* C4 (its first sentence): makeMove returns true only if, in the resulting
\* position, the king of the side that just moved is attacked by no
\* opposing piece.
C4_AcceptedKingSafe ==
  (last.op = "makeMove" /\ last.result = "true")
    => ~kingAttacked(position, whiteMoved)

\* the squares of a castle: the king's origin, the square it passes through
\* and its destination
castlingPath(move) ==
  {getFromSquare(move), (getFromSquare(move) + getToSquare(move)) \div 2,
   getToSquare(move)}

castlingTried ==
  /\ last.op \in {"makeMove", "move"}
  /\ last.move # -1
  /\ getMoveFlags(last.move) \in {KING_CASTLE, QUEEN_CASTLE}

castlingSafe ==
  \A sq \in castlingPath(last.move) :
    ~attackedBy(last.before, sq, last.before.sideToMove # "white")

\* C5: a castling move is accepted by makeMove only if the king's origin
\* square, the square it passes through and its destination square are not
\* attacked by the opponent in the position before the move; otherwise
\* makeMove reverts the position and returns false.
C5_CastlingSquaresSafe ==
  castlingTried =>
    /\ last.result = "true" => castlingSafe
    /\ ~castlingSafe => (last.result = "false" /\ position = last.before)

\* C6: Engine.move(uci) returns true exactly when uci is moveToUCI of a
\* legal move of the current position; in every other case it returns
\* false and the Position is unchanged.
C6_EngineMove ==
  last.op = "move" =>
    /\ last.result = "true" <=> last.legal
    /\ last.result # "true" => (last.result = "false" /\ position = last.before)

whiteUnion(pos) == UNION {pos.bitboards[p] : p \in 0..5}
blackUnion(pos) == UNION {pos.bitboards[p] : p \in 6..11}

\* C7: no square is set in more than one of the twelve piece masks, so the
\* white masks and the black masks taken together are disjoint.
C7_OnePiecePerSquare ==
  Running =>
    /\ \A sq \in FULL : Cardinality({p \in 0..11 : sq \in position.bitboards[p]}) <= 1
    /\ whiteUnion(position) \cap blackUnion(position) = {}

\* C8: after fromFEN and after every makeMove or unmakeMove, whitePieces is
\* the union of the six white masks, blackPieces the union of the six black
\* masks, and allPieces the union of the two.
C8_AggregatesAreUnions ==
  /\ position.whitePieces = whiteUnion(position)
  /\ position.blackPieces = blackUnion(position)
  /\ position.allPieces = position.whitePieces \cup position.blackPieces

\* a capture was made and then taken back
C8_Witness ==
  /\ last.op = "unmakeMove" /\ last.result = "ok"
  /\ isCapture(last.move)
  /\ position.allPieces # {}
  /\ C8_AggregatesAreUnions

\* C9: in every reachable state stateHistory and positionHistory have the
\* same length, the number of successful makeMove calls minus the number of
\* unmakeMove calls.
C9_HistoryLengths ==
  /\ Len(position.stateHistory) = Len(position.positionHistory)
  /\ Len(position.stateHistory) = netMakes

\* C10: getGameState reports checkmate, with the opponent of the side to
\* move as winner, exactly when the side to move has no legal move and its
\* king is attacked, and stalemate exactly when it has no legal move and
\* its king is not attacked.
C10_MateAndStalemate ==
  (last.op = "getGameState" /\ last.result # "throw") =>
    LET white == last.before.sideToMove = "white"
        noMove == generateLegalMoves(last.before).legal = <<>>
        attacked == kingAttacked(last.before, white)
    IN  /\ last.result = "checkmate" <=> (noMove /\ attacked)
        /\ last.result = "checkmate"
             => last.winner = (IF white THEN "black" ELSE "white")
        /\ last.result = "stalemate" <=> (noMove /\ ~attacked)

(***************************************************************************)
(* Game state along a game line                                            *)
(***************************************************************************)
asked == last.op = "getGameState" /\ last.result # "throw"

\* the side to move of pos has a move that generateLegalMoves returns
hasLegalMove(pos) == generateLegalMoves(pos).legal # <<>>

\* the status the precedence of the game-ending conditions gives pos
statusByPrecedence(pos, none) ==
  IF none THEN {"checkmate", "stalemate"}
  ELSE IF pos.halfmoveClock >= 100 THEN {"draw_fifty_move"}
  ELSE IF isThreefoldRepetition(pos) THEN {"draw_repetition"}
  ELSE IF isInsufficientMaterial(pos) THEN {"draw_insufficient_material"}
  ELSE {"ongoing"}

\* C11: getGameState reports checkmate or stalemate first, then the
\* fifty-move draw (halfmove clock at least 100), then threefold repetition,
\* then insufficient material, and 'ongoing' only when none of them applies
C11_Precedence ==
  asked => last.result \in statusByPrecedence(last.before, ~hasLegalMove(last.before))

\* the fifty-move draw is reported of a position that is also a repetition
C11_Witness ==
  /\ asked
  /\ last.result = "draw_fifty_move"
  /\ isThreefoldRepetition(last.before)

\* what identifies a position for repetition: placement, side to move,
\* castling rights and en passant square
samePosition(a, b) ==
  /\ a.bitboards = b.bitboards
  /\ a.sideToMove = b.sideToMove
  /\ a.castlingRights = b.castlingRights
  /\ a.enPassantSquare = b.enPassantSquare

\* how often pos has occurred in the game line, which starts at the
\* Position the game was initialized from and ends at pos
occurrences(pos) ==
  Cardinality({i \in 1..Len(moves) : samePosition(moves[i].before, pos)}) + 1

\* C12: whenever the current position has occurred at least three times in
\* the game line, the position the game was initialized from included, the
\* side to move has a legal move and the halfmove clock is below 100,
\* getGameState reports 'draw_repetition'
C12_RepetitionFromStart ==
  (/\ asked
   /\ occurrences(last.before) >= 3
   /\ hasLegalMove(last.before)
   /\ last.before.halfmoveClock < 100)
  => last.result = "draw_repetition"

(***************************************************************************)
(* Insufficient material                                                   *)
(***************************************************************************)
\* the squares of pos holding one of the pieces
squaresOf(pos, pieces) == UNION {pos.bitboards[piece] : piece \in pieces}

heavyOrPawn(pos) == squaresOf(pos, {0, 3, 4, 6, 9, 10}) # {}

whiteMinors(pos) == Cardinality(squaresOf(pos, {1, 2}))

blackMinors(pos) == Cardinality(squaresOf(pos, {7, 8}))

oneBishopEach(pos) ==
  Cardinality(pos.bitboards[2]) = 1 /\ Cardinality(pos.bitboards[8]) = 1

sameColour(a, b) == (fileOf(a) + rankOf(a)) % 2 = (fileOf(b) + rankOf(b)) % 2

bishopsOnOneColour(pos) ==
  \A a \in pos.bitboards[2] : \A b \in pos.bitboards[8] : sameColour(a, b)

answered == last.op = "isInsufficientMaterial"

\* C13, as the program has it: isInsufficientMaterial returns true exactly
\* when neither side has a pawn, rook or queen and either the two sides
\* together have at most one minor piece, or each side has one bishop and
\* nothing else and the two bishops stand on same-coloured squares
C13_InsufficientMaterial ==
  answered =>
    (last.result = "true" <=>
       /\ ~heavyOrPawn(last.before)
       /\ whiteMinors(last.before) <= 1
       /\ blackMinors(last.before) <= 1
       /\ \/ whiteMinors(last.before) + blackMinors(last.before) <= 1
          \/ oneBishopEach(last.before) /\ bishopsOnOneColour(last.before))

\* a knight each: one minor piece a side, and the answer is false
C13_Witness ==
  /\ answered
  /\ ~heavyOrPawn(last.before)
  /\ Cardinality(last.before.bitboards[1]) = 1
  /\ Cardinality(last.before.bitboards[7]) = 1
  /\ whiteMinors(last.before) = 1 /\ blackMinors(last.before) = 1
  /\ last.result = "false"

\* C13, as stated: isInsufficientMaterial returns true whenever neither side
\* has a pawn, rook or queen and each side has at most one minor piece
\* (with one bishop each, only if they stand on same-coloured squares), and
\* false whenever a pawn, rook or queen is on the board or either side has
\* two or more minor pieces
C13_AtMostOneMinorEach ==
  answered =>
    /\ (/\ ~heavyOrPawn(last.before)
        /\ whiteMinors(last.before) <= 1
        /\ blackMinors(last.before) <= 1
        /\ oneBishopEach(last.before) => bishopsOnOneColour(last.before))
       => last.result = "true"
    /\ (\/ heavyOrPawn(last.before)
        \/ whiteMinors(last.before) >= 2
        \/ blackMinors(last.before) >= 2)
       => last.result = "false"

(***************************************************************************)
(* The transposition table                                                 *)
(***************************************************************************)
\* the number that the low 21 bits of a hash make
RECURSIVE lowBitsFrom(_, _)
lowBitsFrom(hash, b) ==
  IF b > 20 THEN 0
  ELSE (IF b \in hash THEN 1 ELSE 0) + 2 * lowBitsFrom(hash, b + 1)

lowBits(hash) == lowBitsFrom(hash, 0)

\* C14: after any sequence of store, probe, incrementAge and clear, probe(h)
\* returns null or an entry whose zobristHash is exactly h, never an entry
\* stored under another hash of the same slot
C14_ProbeMatchesHash ==
  last.op = "probe" =>
    \/ last.result = <<>>
    \/ last.result[1].zobristHash = last.zobristHash

\* a probe whose slot holds an entry stored under another hash
C14_Witness ==
  /\ last.op = "probe"
  /\ last.result = <<>>
  /\ lowBits(last.zobristHash) \in DOMAIN globalTT.table
  /\ globalTT.table[lowBits(last.zobristHash)].zobristHash # last.zobristHash

\* what the slot indexed by the low 21 bits of the hash holds: <<>> or <<entry>>
lowBitsSlot(tt, hash) ==
  IF lowBits(hash) \in DOMAIN tt.table THEN <<tt.table[lowBits(hash)]>> ELSE <<>>

\* the entry a store call writes when it writes
storedEntry ==
  [zobristHash |-> last.zobristHash, depth |-> last.depth, score |-> last.score,
   type |-> last.type, bestMove |-> last.bestMove, age |-> last.before.age]

mayOverwrite(existing) ==
  \/ existing = <<>>
  \/ existing[1].zobristHash = last.zobristHash
  \/ last.depth >= existing[1].depth
  \/ existing[1].age < last.before.age

\* C15: store(h, depth, score, bound, move) overwrites the slot indexed by
\* the low bits of h if and only if the slot is empty, or the stored hash
\* equals h, or depth >= the stored depth, or the stored entry's age is below
\* the table's current age; otherwise the slot and every other slot are
\* unchanged; when it overwrites, the new entry carries the current age
C15_StoreReplacement ==
  last.op = "store" =>
    IF mayOverwrite(lowBitsSlot(last.before, last.zobristHash))
    THEN /\ lowBitsSlot(globalTT, last.zobristHash) = <<storedEntry>>
         /\ \A i \in (DOMAIN globalTT.table \cup DOMAIN last.before.table)
                       \ {lowBits(last.zobristHash)} :
              /\ i \in DOMAIN globalTT.table
              /\ i \in DOMAIN last.before.table
              /\ globalTT.table[i] = last.before.table[i]
         /\ globalTT.age = last.before.age
    ELSE globalTT = last.before

\* a store that is refused: another hash, a smaller depth, the same age
C15_Witness ==
  /\ last.op = "store"
  /\ ~mayOverwrite(lowBitsSlot(last.before, last.zobristHash))
  /\ 6 \in DOMAIN globalTT.table

\* C16: a store never overwrites an entry written in the current generation
\* with an entry of strictly smaller depth
C16_NeverShallower ==
  (/\ last.op = "store"
   /\ lowBitsSlot(last.before, last.zobristHash) # <<>>
   /\ lowBitsSlot(last.before, last.zobristHash)[1].age = last.before.age
   /\ last.depth < lowBitsSlot(last.before, last.zobristHash)[1].depth)
  => lowBitsSlot(globalTT, last.zobristHash)
       = lowBitsSlot(last.before, last.zobristHash)

RECURSIVE filesOf(_)
filesOf(row) ==
  IF row = <<>> THEN 0
  ELSE LET rest == filesOf(Tail(row))
           here == IF Head(row) \in {"1", "2", "3", "4", "5", "6", "7", "8"}
                   THEN IndexIn(Digits, Head(row)) - 1
                   ELSE IF Head(row) \in {"P", "N", "B", "R", "Q", "K",
                                          "p", "n", "b", "r", "q", "k"}
                   THEN 1 ELSE -1
       IN  IF rest = -1 \/ here = -1 THEN -1 ELSE here + rest

\* the placement field decodes to exactly 8 ranks of exactly 8 files
eightByEight(fen) ==
  LET rows == split(split(fen, " ", <<>>)[1], "/", <<>>)
  IN  Len(rows) = 8 /\ \A n \in 1..8 : filesOf(rows[n]) = 8

\* C20: Position.fromFEN fails with a parse error, and returns no Position,
\* whenever the piece-placement field does not decode to exactly 8 ranks of
\* exactly 8 files each (too few or too many ranks, a rank of fewer or more
\* than 8 files, or an unknown piece letter)
C20_BadPlacementFails ==
  (last.op = "fromFEN" /\ ~eightByEight(last.fen)) => last.result = "throw"

(***************************************************************************)
(* Search                                                                  *)
(***************************************************************************)
\* searchPosition has returned to its caller
searchReturned == search.pc = "done" /\ ~search.threw

\* C17: for every Position and every maximum depth, searchPosition (and so
\* getBestMove) returns no move only when the side to move has no legal
\* move; when a legal move exists the returned move is not null and is one
\* of generateLegalMoves(position)
C17_MoveUnlessNoLegalMove ==
  searchReturned =>
    LET legal == generateLegalMoves(position).legal
    IN  /\ search.stats.bestMove = -1 => legal = <<>>
        /\ legal # <<>> =>
             \E n \in 1..Len(legal) : legal[n] = search.stats.bestMove

\* C18: the time budget is consulted between depths; once a depth is
\* completed with the elapsed time at or above the budget given, zero and
\* past deadlines included, the search does not go on to the next depth, and
\* a search asked for depth 1 or more over two or more legal moves returns
\* with depth 1 completed
C18_StopsOnceBudgetSpent ==
  /\ (search.pc = "loop" /\ search.depth >= 2 /\ search.depth <= search.maxDepth
      /\ search.timeLimit # <<>>)
     => search.elapsed < search.timeLimit[1]
  /\ (searchReturned /\ search.maxDepth >= 1 /\ Len(search.legalMoves) >= 2)
     => search.stats.depth >= 1 /\ search.stats.bestMove # -1

(***************************************************************************)
(* The fields makeMove updates                                             *)
(***************************************************************************)
\* a move has just been applied: makeMove returned true
applied == last.op \in {"makeMove", "move"} /\ last.result = "true"

\* the castling rights held: 0 White's king side, 1 White's queen side,
\* 2 Black's king side, 3 Black's queen side
held(pos) == {right \in 0..3 : (pos.castlingRights \div (2 ^ right)) % 2 = 1}

kingHome(right) == IF right \in {0, 1} THEN 4 ELSE 60

rookHome(right) == CASE right = 0 -> 7 [] right = 1 -> 0 [] right = 2 -> 63 [] right = 3 -> 56

\* C21: after every successful makeMove the castling rights are the rights
\* held before less those of a colour whose king home square the move left
\* and less the one whose rook home square the move left or arrived on; no
\* right is gained
C21_RightsOnlyLost ==
  applied =>
    /\ position.castlingRights \in 0..15
    /\ held(position) =
         {right \in held(last.before) :
            /\ getFromSquare(last.move) # kingHome(right)
            /\ getFromSquare(last.move) # rookHome(right)
            /\ getToSquare(last.move) # rookHome(right)}
    /\ held(position) \subseteq held(last.before)

\* a right is lost through the destination of the move alone
C21_Witness ==
  /\ applied
  /\ \E right \in held(last.before) \ held(position) :
       /\ getToSquare(last.move) = rookHome(right)
       /\ getFromSquare(last.move) \notin {kingHome(right), rookHome(right)}

\* the piece on the origin of the move just applied, before it was applied
movedPiece == pieceAt(last.before, getFromSquare(last.move))

\* a pawn went two squares along its file
pawnWentTwo ==
  /\ movedPiece \in {0, 6}
  /\ fileOf(getFromSquare(last.move)) = fileOf(getToSquare(last.move))
  /\ abs(rankOf(getToSquare(last.move)) - rankOf(getFromSquare(last.move))) = 2

\* C22: after every successful makeMove enPassantSquare is set exactly when
\* the move was a two-square pawn push, to the square the pawn passed over,
\* and is -1 after any other move, whatever it was before
C22_EnPassantOnePly ==
  applied =>
    position.enPassantSquare =
      (IF pawnWentTwo
       THEN (getFromSquare(last.move) + getToSquare(last.move)) \div 2
       ELSE -1)

\* a two-square push answers a two-square push: the old target is replaced
C22_Witness ==
  /\ applied
  /\ pawnWentTwo
  /\ last.before.enPassantSquare # -1
  /\ position.enPassantSquare \notin {-1, last.before.enPassantSquare}

reached(square, occupancy, straight) ==
  {sq \in 0..63 :
     /\ sq # square
     /\ IF straight
        THEN rankOf(sq) = rankOf(square) \/ fileOf(sq) = fileOf(square)
        ELSE abs(rankOf(sq) - rankOf(square)) = abs(fileOf(sq) - fileOf(square))
     /\ between(square, sq) \cap occupancy = {}}

\* C24: for every square and every full-board occupancy getRookAttacks and
\* getBishopAttacks return the squares reached by casting a ray in each of
\* the piece's four directions up to and including the first occupied square
\* or the edge; no two occupancies with different attack sets share a slot
C24_LookupIsRayCast ==
  /\ last.op = "getRookAttacks"
       => last.result = reached(last.square, last.occupancy, TRUE)
  /\ last.op = "getBishopAttacks"
       => last.result = reached(last.square, last.occupancy, FALSE)

(***************************************************************************)
(* perft                                                                   *)
(***************************************************************************)
\* perft has just returned a count for the standard starting layout
perftOfStart ==
  /\ last.op = "perft"
  /\ last.result = "ok"
  /\ moves = <<>>
  /\ Cardinality(occupied(last.before)) = 32

\* C25: from the standard starting layout perft returns the number of legal
\* move sequences of the given length: 1 at depth 0, 20 at depth 1, 400 at
\* depth 2 (8,902 at depth 3 and 197,281 at depth 4 lie past MaxPerftDepth)
C25_PerftOfStart ==
  perftOfStart => last.nodes = <<1, 20, 400>>[last.depth + 1]

\* the moves of list from its n-th on have every capture before every quiet move
capturesFirst(list, n) ==
  \A i, j \in n..Len(list) : i < j /\ isCapture(list[j]) => isCapture(list[i])

\* C26: at every negamax node where the table holds a best move for the
\* position and that move is among the legal moves, the loop searches that
\* move first and then the others, every capture before every quiet move.
C26_CachedMoveFirst ==
  \A node \in search.ordered :
    (\E n \in 1..Len(node[2]) : node[2][n] = node[1])
      => node[2][1] = node[1] /\ capturesFirst(node[2], 2)

\* C27: whatever the table holds, a negamax node whose position getGameState
\* classifies as a draw returns 0, and one it classifies as checkmate returns
\* -MATE_SCORE plus the node's ply from the root.
C27_TerminalScore ==
  \A node \in search.scored :
    /\ getGameState(node[1]).status
         \in {"stalemate", "draw_fifty_move", "draw_repetition",
              "draw_insufficient_material"} => node[3] = 0
    /\ getGameState(node[1]).status = "checkmate"
         => node[3] = -MATE_SCORE + node[2]

\* C28: two Positions that agree on piece placement, side to move, castling
\* rights and en-passant square have the same zobristHash, whatever layouts
\* and moves they came from.
C28_HashOfPositionAlone ==
  (last.op = "fromFEN" /\ samePosition(last.before, position))
    => last.before.zobristHash = position.zobristHash

\* C29: when getGameState (and with it generateLegalMoves, which it calls)
\* or searchPosition (and with it getBestMove) returns, the Position is
\* equal in every field, stateHistory and positionHistory included, to the
\* Position at the call.
C29_CallersRestore ==
  /\ asked => position = last.before
  /\ (search.pc = "done" /\ ~search.threw) => position = search.called[1]

\* a search without a time budget is under way
unbounded == search.pc \in {"loop", "break"} /\ search.timeLimit = <<>>

\* the steps searchPosition has left: the passes of its loop, then its return
remaining ==
  IF search.pc = "done" THEN 0
  ELSE IF search.pc = "break" \/ search.depth > search.maxDepth THEN 1
  ELSE search.maxDepth - search.depth + 2

\* C30: searchPosition called without a time budget comes to its end: every
\* step of its loop leaves fewer steps to take, and every quiescence
\* recursion follows a move that left fewer pieces on the board than there
\* were before it.
C30_Terminates ==
  /\ [][unbounded => remaining' < remaining]_vars
  /\ [](\A made \in search.followed : made[2] < made[1])

====
